---- MODULE Spec2Model ----
(***************************************************************************)
(* A model of the rsdice session core: the game state machine of           *)
(* common/src/game.rs (join, start, attack, next_turn), the world and      *)
(* stack rules it uses, and the session actor of                           *)
(* backend/src/games/game.rs that wraps one game behind a write lock and   *)
(* publishes events, snapshots and activity.                               *)
(***************************************************************************)
EXTENDS Integers, Sequences, FiniteSets, TLC

(***************************************************************************)
(* Program constants.                                                      *)
(***************************************************************************)
MAX_PLAYERS == 6
StackMAX == 8
StackMIN == 1
DIE_SIDES == 6
GAME_IDLE_TIMEOUT == 300

(***************************************************************************)
(* Bounds of the model.                                                    *)
(***************************************************************************)
\* Number of concurrent caller tasks (connection handlers) of one session.
NumTasks == 2
\* The clock advances in steps of TimeStep seconds, up to MaxNow.
TimeStep == 300
MaxNow == 300
\* New calls begin only while fewer than MaxBacklog events wait unread.
MaxBacklog == 1
\* Largest stack count of an area in an initial world.
MaxInitStack == 2
\* Turns are ended until MAX_PLAYERS + ExtraTurns of them were held.
ExtraTurns == 1
\* Other connections stop sending once the receiver has missed this many.
MaxMissed == 2
\* Sessions the registry creates.
MaxGames == 2
\* Subscribers of the list of games at one time.
MaxListeners == 1
\* Users who join a session of the registry.
MaxJoins == 2

\* Tiles have coordinates 0..MaxCoord.
MaxCoord == 3
\* store_dice is called with amounts 0..MaxAmount, far below usize::MAX.
MaxAmount == 21

Tasks == 1..NumTasks

\* Option<Uuid>::None for an area's owner; player ids are 1, 2, ...
NoOwner == 0

\* Player ids: uuids are opaque and compared for equality only.  The ids
\* 1..MAX_PLAYERS+1 allow one join more than the game has room for.
PlayerIds == 1..(MAX_PLAYERS + 1)

(***************************************************************************)
(* Tiles and areas (common/src/tile.rs, common/src/area.rs).               *)
(***************************************************************************)
Abs(n) == IF n < 0 THEN -n ELSE n

is_multiple_of_2(n) == n % 2 = 0

\* Tile::is_adjacent: dx and dy are absolute values, as in the source.
TileIsAdjacent(self, other) ==
    LET dx == Abs(self[1] - other[1])
        dy == Abs(self[2] - other[2])
    IN  \/ (dx = 1 /\ dy = 0)
        \/ (dx = 1 /\ dy = 1 /\ is_multiple_of_2(self[1]))
        \/ (dx = 1 /\ dy = -1 /\ ~is_multiple_of_2(self[1]))
        \/ (dx = 0 /\ dy = 1)
        \/ (dx = 0 /\ dy = -1)

\* Area::is_adjacent: some tile of self is adjacent to some tile of other.
AreaIsAdjacent(self, other) ==
    \E tile \in self.tiles : \E other_tile \in other.tiles :
        TileIsAdjacent(tile, other_tile)

is_owned_by(area, player_id) == area.owner = player_id

(***************************************************************************)
(* Stack (common/src/stack.rs).  A stack is its count.                     *)
(***************************************************************************)
\* A stack that is never taken to be full.
is_full_never(count) == FALSE

is_full(count) == count >= StackMAX

is_single(count) == count <= StackMIN

\* An increment without the test of is_full.
increment_unchecked(count) ==
    [ok |-> TRUE, err |-> "", count |-> count + 1]

\* Stack::increment: the result and the count the stack is left with.
increment(count) ==
    IF is_full(count)
    THEN [ok |-> FALSE, err |-> "Overflow", count |-> count]
    ELSE [ok |-> TRUE, err |-> "", count |-> count + 1]

\* Stack::decrement
decrement(count) ==
    IF is_single(count)
    THEN [ok |-> FALSE, err |-> "Underflow", count |-> count]
    ELSE [ok |-> TRUE, err |-> "", count |-> count - 1]

\* A split whose right part keeps the whole count.
split_keeps_count(count) ==
    IF is_single(count)
    THEN [ok |-> FALSE, err |-> "Underflow", left |-> 0, right |-> 0]
    ELSE [ok |-> TRUE, err |-> "", left |-> StackMIN, right |-> count]

\* Stack::split: Err(Underflow) on a single stack, else (MIN, count - MIN).
split(count) ==
    IF is_single(count)
    THEN [ok |-> FALSE, err |-> "Underflow", left |-> 0, right |-> 0]
    ELSE [ok |-> TRUE, err |-> "", left |-> StackMIN,
          right |-> count - StackMIN]

\* A defeat that leaves the stack as it is.
defeat_keeps_count(count) == count

\* Stack::defeat
defeat(count) == StackMIN

\* Stack::roll: the sum of count dice, any value the dice can add up to.
\* One die thrown whatever the count.
roll_one_die(count) == 1..DIE_SIDES

roll(count) == count..(count * DIE_SIDES)

\* Stack::attack_roll and Stack::defence_roll both roll the whole stack.
attack_roll(count) == roll(count)

defence_roll(count) == roll(count)

(***************************************************************************)
(* Results and errors (GameError, AttackError).                            *)
(***************************************************************************)
Ok == [ok |-> TRUE, kind |-> "Ok", a |-> 0, b |-> 0]

Err(kind, a, b) == [ok |-> FALSE, kind |-> kind, a |-> a, b |-> b]

(***************************************************************************)
(* Color (common/src/player.rs).                                           *)
(***************************************************************************)
\* Color::ALL, in index order
ColorALL == <<"Red", "Green", "Blue", "Yellow", "Purple", "Orange">>

\* A conversion whose arm for 4 repeats the colour of 3.
ColorTryFromRepeated(value) ==
    IF value = 0 THEN [ok |-> TRUE, color |-> "Red"]
    ELSE IF value = 1 THEN [ok |-> TRUE, color |-> "Green"]
    ELSE IF value = 2 THEN [ok |-> TRUE, color |-> "Blue"]
    ELSE IF value = 3 THEN [ok |-> TRUE, color |-> "Yellow"]
    ELSE IF value = 4 THEN [ok |-> TRUE, color |-> "Yellow"]
    ELSE IF value = 5 THEN [ok |-> TRUE, color |-> "Orange"]
    ELSE [ok |-> FALSE, color |-> "InvalidIndex"]

\* impl TryFrom<usize> for Color
ColorTryFrom(value) ==
    IF value = 0 THEN [ok |-> TRUE, color |-> "Red"]
    ELSE IF value = 1 THEN [ok |-> TRUE, color |-> "Green"]
    ELSE IF value = 2 THEN [ok |-> TRUE, color |-> "Blue"]
    ELSE IF value = 3 THEN [ok |-> TRUE, color |-> "Yellow"]
    ELSE IF value = 4 THEN [ok |-> TRUE, color |-> "Purple"]
    ELSE IF value = 5 THEN [ok |-> TRUE, color |-> "Orange"]
    ELSE [ok |-> FALSE, color |-> "InvalidIndex"]

PlayerNew(id, color) == [id |-> id, color |-> color, stored_dice |-> 0]

MAX_STORED_DICE == 20

\* Ord::clamp on usize: it asserts min <= max and panics otherwise.
clamp(self, min, max) ==
    IF min > max
    THEN [panic |-> TRUE, value |-> self]
    ELSE [panic |-> FALSE,
          value |-> IF self < min THEN min
                    ELSE IF self > max THEN max
                    ELSE self]

\* Player::store_dice: the pool is assigned only if clamp returns.
store_dice(player, amount) ==
    LET out == clamp(player.stored_dice, player.stored_dice + amount,
                     MAX_STORED_DICE)
    IN  [panic |-> out.panic,
         player |-> IF out.panic THEN player
                    ELSE [player EXCEPT !.stored_dice = out.value]]

(***************************************************************************)
(* GameState and Game (common/src/game.rs).                                *)
(***************************************************************************)
WaitingForPlayers == [tag |-> "WaitingForPlayers", turn |-> 0]

InProgress(turn) == [tag |-> "InProgress", turn |-> turn]

Finished == [tag |-> "Finished", turn |-> 0]

GameNew(world) ==
    [world |-> world, players |-> << >>, state |-> WaitingForPlayers]

GameResult(game, res) == [game |-> game, res |-> res]

HasPlayer(self, id) ==
    \E i \in 1..Len(self.players) : self.players[i].id = id

\* A join without the check of the state.
join_player_any_state(self, id) ==
    IF HasPlayer(self, id)
    THEN GameResult(self, Err("PlayerAlreadyInGame", 0, 0))
    ELSE IF Len(self.players) >= MAX_PLAYERS
    THEN GameResult(self, Err("GameFull", 0, 0))
    ELSE GameResult(
             [self EXCEPT !.players =
                 Append(self.players,
                        PlayerNew(id, ColorTryFrom(Len(self.players)).color))],
             Ok)

\* A join that checks the state before the player list.
join_player_state_first(self, id) ==
    IF self.state # WaitingForPlayers
    THEN GameResult(self, Err("GameStarted", 0, 0))
    ELSE IF HasPlayer(self, id)
    THEN GameResult(self, Err("PlayerAlreadyInGame", 0, 0))
    ELSE IF Len(self.players) >= MAX_PLAYERS
    THEN GameResult(self, Err("GameFull", 0, 0))
    ELSE GameResult(
             [self EXCEPT !.players =
                 Append(self.players,
                        PlayerNew(id, ColorTryFrom(Len(self.players)).color))],
             Ok)

\* Game::join_player
join_player(self, id) ==
    IF HasPlayer(self, id)
    THEN GameResult(self, Err("PlayerAlreadyInGame", 0, 0))
    ELSE IF Len(self.players) >= MAX_PLAYERS
    THEN GameResult(self, Err("GameFull", 0, 0))
    ELSE IF self.state # WaitingForPlayers
    THEN GameResult(self, Err("GameStarted", 0, 0))
    ELSE LET color == ColorTryFrom(Len(self.players))
         IN  IF ~color.ok
             THEN GameResult(self, Err("ColorError", Len(self.players), 0))
             ELSE GameResult(
                      [self EXCEPT !.players =
                          Append(self.players, PlayerNew(id, color.color))],
                      Ok)

\* A draw from the inclusive range 0..=len.
random_range_inclusive(len) == 0..len

\* random_range(..len): the indices a start may draw.
random_range(len) == 0..(len - 1)

\* A start without the check of the state.
start_in_any_state(self, first) ==
    IF Len(self.players) < 2
    THEN GameResult(self, Err("NotEnoughPlayers", 0, 0))
    ELSE GameResult([self EXCEPT !.state = InProgress(first)], Ok)

\* Game::start; first is the value random_range returned.
start(self, first) ==
    IF self.state # WaitingForPlayers
    THEN GameResult(self, Err("GameStarted", 0, 0))
    ELSE IF Len(self.players) < 2
    THEN GameResult(self, Err("NotEnoughPlayers", 0, 0))
    ELSE GameResult([self EXCEPT !.state = InProgress(first)], Ok)

(***************************************************************************)
(* World (common/src/world.rs): areas is the map from area id to area.     *)
(***************************************************************************)
\* A validation without the check of the target's owner.
validate_attack_any_target(world, from_id, to_id, player_id) ==
    IF from_id \notin DOMAIN world.areas
    THEN Err("AreaNotFound", from_id, 0)
    ELSE IF to_id \notin DOMAIN world.areas
    THEN Err("AreaNotFound", to_id, 0)
    ELSE IF ~AreaIsAdjacent(world.areas[from_id], world.areas[to_id])
    THEN Err("AreasNotAdjacent", from_id, to_id)
    ELSE IF ~is_owned_by(world.areas[from_id], player_id)
    THEN Err("AreaNotOwnedByPlayer", from_id, player_id)
    ELSE IF is_single(world.areas[from_id].stack)
    THEN Err("AreaNotEnoughDice", from_id, 0)
    ELSE Ok

\* World::validate_attack
validate_attack(world, from_id, to_id, player_id) ==
    IF from_id \notin DOMAIN world.areas
    THEN Err("AreaNotFound", from_id, 0)
    ELSE IF to_id \notin DOMAIN world.areas
    THEN Err("AreaNotFound", to_id, 0)
    ELSE LET from_area == world.areas[from_id]
             to_area == world.areas[to_id]
         IN  IF ~AreaIsAdjacent(from_area, to_area)
             THEN Err("AreasNotAdjacent", from_id, to_id)
             ELSE IF ~is_owned_by(from_area, player_id)
             THEN Err("AreaNotOwnedByPlayer", from_id, player_id)
             ELSE IF is_owned_by(to_area, player_id)
             THEN Err("SelfAttackNotAllowed", 0, 0)
             ELSE IF is_single(from_area.stack)
             THEN Err("AreaNotEnoughDice", from_id, 0)
             ELSE Ok

\* World::dfs and its loop over self.areas.values(), which gives the areas
\* in the order of the map; acc is the size counted and the set visited.
RECURSIVE dfs(_, _, _, _, _), dfs_values(_, _, _, _, _, _)
dfs(world, order, start_id, player_id, visited) ==
    LET seen == visited \cup {start_id}
    IN  IF start_id \notin DOMAIN world.areas
        THEN [size |-> 1, visited |-> seen]
        ELSE dfs_values(world, order, 1, start_id, player_id,
                        [size |-> 1, visited |-> seen])

dfs_values(world, order, i, start_id, player_id, acc) ==
    IF i > Len(order) THEN acc
    ELSE LET other == world.areas[order[i]]
         IN  IF /\ other.id \notin acc.visited
                /\ is_owned_by(other, player_id)
                /\ AreaIsAdjacent(world.areas[start_id], other)
             THEN LET sub == dfs(world, order, other.id, player_id,
                                 acc.visited)
                  IN  dfs_values(world, order, i + 1, start_id, player_id,
                                 [size |-> acc.size + sub.size,
                                  visited |-> sub.visited])
             ELSE dfs_values(world, order, i + 1, start_id, player_id, acc)

\* The loop of World::largest_connected_group from the i-th area on.
RECURSIVE largest_values(_, _, _, _, _)
largest_values(world, order, i, player_id, acc) ==
    IF i > Len(order) THEN acc
    ELSE LET area == world.areas[order[i]]
         IN  IF is_owned_by(area, player_id) /\ area.id \notin acc.visited
             THEN LET sub == dfs(world, order, area.id, player_id,
                                 acc.visited)
                  IN  largest_values(world, order, i + 1, player_id,
                          [largest |-> IF sub.size > acc.largest
                                       THEN sub.size ELSE acc.largest,
                           visited |-> sub.visited])
             ELSE largest_values(world, order, i + 1, player_id, acc)

\* World::largest_connected_group, with the map giving its areas in order.
largest_connected_group(world, order, player_id) ==
    largest_values(world, order, 1, player_id,
                   [largest |-> 0, visited |-> {}]).largest

\* areas.get_mut(&chosen_id) followed by the increment whose result is
\* dropped; an id that is no key of the map changes nothing.
place_die(world, chosen_id) ==
    IF chosen_id \in DOMAIN world.areas
    THEN [world EXCEPT !.areas[chosen_id].stack =
             increment(world.areas[chosen_id].stack).count]
    ELSE world

\* A bonus die placed on any area that is not full, whoever owns it.
add_bonus_dice_any_owner(world, player_id) ==
    LET eligible_ids == {world.areas[key].id : key \in
                           {k \in DOMAIN world.areas :
                               ~is_full(world.areas[k].stack)}}
    IN  IF eligible_ids = {}
        THEN {[world |-> world, placed |-> FALSE]}
        ELSE {[world |-> place_die(world, chosen_id), placed |-> TRUE] :
                 chosen_id \in eligible_ids}

\* World::add_bonus_dice: every outcome of the random choice among the ids
\* of the player's areas that are not full.
add_bonus_dice(world, player_id) ==
    LET eligible_ids == {world.areas[key].id : key \in
                           {k \in DOMAIN world.areas :
                               /\ is_owned_by(world.areas[k], player_id)
                               /\ ~is_full(world.areas[k].stack)}}
    IN  IF eligible_ids = {}
        THEN {[world |-> world, placed |-> FALSE]}
        ELSE {[world |-> place_die(world, chosen_id), placed |-> TRUE] :
                 chosen_id \in eligible_ids}

\* HashMap::remove and HashMap::insert on the area map.
MapRemove(areas, id) == [k \in DOMAIN areas \ {id} |-> areas[k]]

\* An insert that leaves the map as it is.
MapInsertNothing(areas, id, area) == areas

MapInsert(areas, id, area) ==
    [k \in DOMAIN areas \cup {id} |-> IF k = id THEN area ELSE areas[k]]

\* A comparison that gives the tie to the attacker.
attacker_wins_tie(attack_r, defense_r) == attack_r >= defense_r

\* The comparison of the two rolls: a tie is the defender's.
attacker_wins(attack_r, defense_r) == attack_r > defense_r

\* Game::attack; attack_r and defense_r are the values the two rolls gave.
\* The attacking area is removed from the map, the target is changed in
\* place, and the attacking area is inserted again.
attack(self, from_id, to_id, player_id, attack_r, defense_r) ==
    LET valid == validate_attack(self.world, from_id, to_id, player_id)
    IN  IF ~valid.ok
        THEN GameResult(self, valid)
        ELSE IF from_id \notin DOMAIN self.world.areas
        THEN GameResult(self, Err("AreaNotFound", from_id, 0))
        ELSE LET from_area == self.world.areas[from_id]
                 removed == MapRemove(self.world.areas, from_id)
             IN  IF to_id \notin DOMAIN removed
                 THEN GameResult([self EXCEPT !.world.areas = removed],
                                 Err("AreaNotFound", to_id, 0))
                 ELSE IF attacker_wins(attack_r, defense_r)
                 THEN LET parts == split(from_area.stack)
                          taken == [removed EXCEPT ![to_id].owner = player_id]
                      IN  IF ~parts.ok
                          THEN GameResult(
                                   [self EXCEPT !.world.areas = taken],
                                   Err("StackError", 0, 0))
                          ELSE GameResult(
                                   [self EXCEPT !.world.areas =
                                       MapInsert(
                                           [taken EXCEPT
                                               ![to_id].stack = parts.right],
                                           from_id,
                                           [from_area EXCEPT
                                               !.stack = parts.left])],
                                   Ok)
                 ELSE GameResult(
                          [self EXCEPT !.world.areas =
                              MapInsert(removed, from_id,
                                  [from_area EXCEPT
                                      !.stack = defeat(from_area.stack)])],
                          Ok)

\* A next_turn that does not wrap the turn index.
next_turn_no_wrap(self, player_id) ==
    IF self.state = Finished
    THEN GameResult(self, Err("GameFinished", 0, 0))
    ELSE IF self.state = WaitingForPlayers
    THEN GameResult(self, Err("GameNotStarted", 0, 0))
    ELSE IF self.players[self.state.turn + 1].id # player_id
    THEN GameResult(self, Err("NotPlayerTurn", 0, 0))
    ELSE GameResult(
             [self EXCEPT !.state = InProgress(self.state.turn + 1)], Ok)

\* A next_turn that passes over a player.
next_turn_skips_player(self, player_id) ==
    IF self.state = Finished
    THEN GameResult(self, Err("GameFinished", 0, 0))
    ELSE IF self.state = WaitingForPlayers
    THEN GameResult(self, Err("GameNotStarted", 0, 0))
    ELSE IF self.players[self.state.turn + 1].id # player_id
    THEN GameResult(self, Err("NotPlayerTurn", 0, 0))
    ELSE GameResult(
             [self EXCEPT !.state =
                 InProgress((self.state.turn + 2) % Len(self.players))],
             Ok)

\* Game::next_turn
next_turn(self, player_id) ==
    IF self.state = Finished
    THEN GameResult(self, Err("GameFinished", 0, 0))
    ELSE IF self.state = WaitingForPlayers
    THEN GameResult(self, Err("GameNotStarted", 0, 0))
    ELSE IF self.players[self.state.turn + 1].id # player_id
    THEN GameResult(self, Err("NotPlayerTurn", 0, 0))
    ELSE GameResult(
             [self EXCEPT !.state =
                 InProgress((self.state.turn + 1) % Len(self.players))],
             Ok)

\* Game::end_turn, the variant without a player argument that the session
\* calls after its own turn check: the transition of next_turn.
end_turn(self) ==
    IF self.state = Finished
    THEN GameResult(self, Err("GameFinished", 0, 0))
    ELSE IF self.state = WaitingForPlayers
    THEN GameResult(self, Err("GameNotStarted", 0, 0))
    ELSE GameResult(
             [self EXCEPT !.state =
                 InProgress((self.state.turn + 1) % Len(self.players))],
             Ok)

(***************************************************************************)
(* Worlds.  Three areas: 1 (two tiles) and 2 are adjacent, 3 touches       *)
(* neither; area id 4 is in no world.                                      *)
(***************************************************************************)
AreaTiles(id) ==
    IF id = 1 THEN {<<0, 0>>, <<1, 0>>}
    ELSE IF id = 2 THEN {<<0, 1>>}
    ELSE {<<4, 4>>}

AreaIds == {1, 2, 3}

MissingAreaId == 4

Area(id, owner, stack) ==
    [id |-> id, owner |-> owner, tiles |-> AreaTiles(id), stack |-> stack]

\* A world: area 1 is held by player 1, area 2 by owner2, area 3 by nobody.
World(stack1, owner2, stack2) ==
    [areas |-> [id \in AreaIds |->
        IF id = 1 THEN Area(1, 1, stack1)
        ELSE IF id = 2 THEN Area(2, owner2, stack2)
        ELSE Area(3, NoOwner, StackMIN)]]

\* The worlds a session starts from, with stacks built by Stack::increment.
SessionWorlds ==
    { World(stack1, owner2, StackMIN) :
        stack1 \in 2..MaxInitStack, owner2 \in {NoOwner, 2} }

(***************************************************************************)
(* The session actor (backend/src/games/game.rs).                          *)
(***************************************************************************)
VARIABLES
    inner,        \* Arc<RwLock<common::Game>>: the authoritative game
    lock,         \* the holder of the write lock, or Unlocked
    tasks,        \* the caller tasks: position and locals of each
    monitor,      \* the idle monitor task: position and locals
    snapshot_tx,  \* watch channel of snapshots: value and receiver count
    event_tx,     \* broadcast channel of events: receiver count and queue
    activity_tx,  \* watch channel of the last activity instant
    now,          \* the clock read by Instant::now()
    inputs,       \* each handler's users, the attackers and the area ids
    last,         \* the latest direct call on a common::Game and its outcome
    conn,         \* the websocket connection followed: position and socket
    registry      \* Games: the sessions registered and the list channel

vars ==
    <<inner, lock, tasks, monitor, snapshot_tx, event_tx, activity_tx, now,
      inputs, last, conn, registry>>

Unlocked == 0

\* The handler of the specifications with one handler.
FirstTask == CHOOSE t \in Tasks : \A u \in Tasks : t <= u

\* The registry before any session is created; list_tx is the watch
\* channel of the aggregated list.
NoRegistry == [games |-> << >>, list_tx |-> [value |-> << >>, rx |-> 0]]

NoGame == GameNew([areas |-> << >>])

NoCmd == [op |-> "none", player_id |-> 0, from_id |-> 0, to_id |-> 0]

JoinCmd(id) == [op |-> "join", player_id |-> id, from_id |-> 0, to_id |-> 0]

StartCmd == [op |-> "start", player_id |-> 0, from_id |-> 0, to_id |-> 0]

AttackCmd(from_id, to_id, player_id) ==
    [op |-> "attack", player_id |-> player_id, from_id |-> from_id,
     to_id |-> to_id]

EndTurnCmd(player_id) ==
    [op |-> "end_turn", player_id |-> player_id, from_id |-> 0, to_id |-> 0]

\* started is the instant at which the call under way began.
IdleTask ==
    [pc |-> "idle", cmd |-> NoCmd, view |-> NoGame,
     pending |-> GameResult(NoGame, Ok), snapshot |-> NoGame, started |-> 0]

\* watch::Sender::send: stores the value unless every receiver is gone.
WatchSend(tx, value) ==
    IF tx.rx = 0 THEN tx ELSE [tx EXCEPT !.value = value]

\* broadcast::channel(64): the events the channel retains.
EventCapacity == 64

\* A send that retains every event.
BroadcastSendUnbounded(tx, event) ==
    IF tx.rx = 0 THEN tx ELSE [tx EXCEPT !.queue = Append(tx.queue, event)]

\* broadcast::Sender::send: queues the event unless there is no receiver.
\* queue holds the events the receiver has yet to take; once it holds
\* EventCapacity of them a send overwrites the oldest, which the receiver
\* has then missed.
BroadcastSend(tx, event) ==
    IF tx.rx = 0 THEN tx
    ELSE IF Len(tx.queue) < EventCapacity
    THEN [tx EXCEPT !.queue = Append(tx.queue, event)]
    ELSE [tx EXCEPT !.queue = Append(Tail(tx.queue), event),
                    !.missed = tx.missed + 1]

\* GameEvent
Event(type, game, cmd, reason) ==
    [type |-> type, game |-> game, cmd |-> cmd, reason |-> reason]

SemanticEvent(cmd) ==
    Event(IF cmd.op = "join" THEN "PlayerJoined"
          ELSE IF cmd.op = "start" THEN "GameStarted"
          ELSE IF cmd.op = "attack" THEN "AttackResolved"
          ELSE "TurnEnded",
          NoGame, cmd, "")

FinishedEvent ==
    Event("Finished", NoGame, NoCmd, "Game timed out due to inactivity")

SnapshotEvent(game) == Event("Snapshot", game, NoCmd, "")

\* GameEvent::Error; message is the error's text, one per kind of error.
ErrorEvent(message) == Event("Error", NoGame, NoCmd, message)

NoEvent == Event("None", NoGame, NoCmd, "")

(***************************************************************************)
(* One call of the session on the locked game.  first, attack_r and        *)
(* defense_r are the random values the call draws.                         *)
(***************************************************************************)
CurrentPlayerId(game) == game.players[game.state.turn + 1].id

\* The body of Game::end_turn of the session under the lock.
session_end_turn(game, player_id) ==
    IF game.state.tag = "InProgress" /\ CurrentPlayerId(game) # player_id
    THEN GameResult(game, Err("NotPlayerTurn", 0, 0))
    ELSE end_turn(game)

SessionOp(game, cmd, first, attack_r, defense_r) ==
    IF cmd.op = "join" THEN join_player(game, cmd.player_id)
    ELSE IF cmd.op = "start" THEN start(game, first)
    ELSE IF cmd.op = "attack"
    THEN attack(game, cmd.from_id, cmd.to_id, cmd.player_id,
                attack_r, defense_r)
    ELSE session_end_turn(game, cmd.player_id)

FirstDraws(game) ==
    IF Len(game.players) = 0 THEN {0} ELSE random_range(Len(game.players))

AttackDraws(game, from_id) ==
    IF from_id \in DOMAIN game.world.areas
    THEN attack_roll(game.world.areas[from_id].stack)
    ELSE {0}

DefenceDraws(game, to_id) ==
    IF to_id \in DOMAIN game.world.areas
    THEN defence_roll(game.world.areas[to_id].stack)
    ELSE {0}

\* Every outcome the call can have on game: start draws the first player,
\* attack the two rolls.
Outcomes(game, cmd) ==
    IF cmd.op = "start"
    THEN { SessionOp(game, cmd, first, 0, 0) : first \in FirstDraws(game) }
    ELSE IF cmd.op = "attack"
    THEN { SessionOp(game, cmd, 0, attack_r, defense_r) :
             attack_r \in AttackDraws(game, cmd.from_id),
             defense_r \in DefenceDraws(game, cmd.to_id) }
    ELSE { SessionOp(game, cmd, 0, 0, 0) }

\* The writes a call made on the game it read (before -> after), applied to
\* the game as it is now: a pushed player, an assigned state, the areas
\* removed, inserted or changed.
WriteBack(cur, before, after) ==
    [players |->
        IF after.players = before.players
        THEN cur.players
        ELSE cur.players \o SubSeq(after.players, Len(before.players) + 1,
                                   Len(after.players)),
     state |->
        IF after.state = before.state THEN cur.state ELSE after.state,
     world |->
        [areas |->
            [k \in DOMAIN cur.world.areas \
                   (DOMAIN before.world.areas \ DOMAIN after.world.areas) |->
                IF /\ k \in DOMAIN after.world.areas
                   /\ k \in DOMAIN before.world.areas
                   /\ after.world.areas[k] # before.world.areas[k]
                THEN after.world.areas[k]
                ELSE cur.world.areas[k]]]]

\* A write that does not wait for the lock.
WriteLockIgnored == TRUE

\* RwLock::write resolves only while nobody holds the lock.
WriteLockFree == lock = Unlocked

PlayerIdsOf(game) == {game.players[i].id : i \in 1..Len(game.players)}

\* Ids of joins that are under way.
JoiningIds ==
    {tasks[t].cmd.player_id : t \in {u \in Tasks : tasks[u].cmd.op = "join"}}

\* The ids a join is called with: an id known to the session, or one new
\* id.  Uuids are only compared for equality, so the new ids are taken in
\* increasing order.
JoinIds(t) ==
    LET known == PlayerIdsOf(inner) \cup JoiningIds
        new == inputs.users[t] \ known
    IN  (known \cap inputs.users[t])
        \cup (IF new = {} THEN {}
              ELSE {CHOOSE id \in new : \A other \in new : id <= other})

\* The commands of handler t: game_ws joins its user, and a connected
\* user, who is one of the players, sends Start, Attack and EndTurn.
Commands(t) ==
    LET callers == PlayerIdsOf(inner) \cap inputs.users[t]
    IN  {JoinCmd(id) : id \in JoinIds(t)}
        \cup {StartCmd}
        \cup {AttackCmd(from_id, to_id, player_id) :
                from_id \in inputs.areas, to_id \in inputs.areas,
                player_id \in callers \cap inputs.attackers}
        \cup {EndTurnCmd(player_id) : player_id \in callers}

SetTask(t, task) == tasks' = [tasks EXCEPT ![t] = task]

\* self.inner.write().await and the call on the locked game, as far as it
\* reads and decides: the handler's call starts when it gets the lock.
Acquire(t) ==
    /\ tasks[t].pc = "idle"
    /\ Len(event_tx.queue) < MaxBacklog
    /\ WriteLockFree
    /\ lock' = t
    /\ \E cmd \in Commands(t) : \E out \in Outcomes(inner, cmd) :
           SetTask(t, [IdleTask EXCEPT !.pc = "commit", !.cmd = cmd,
                                       !.view = inner, !.pending = out,
                                       !.started = now])
    /\ UNCHANGED <<inner, monitor, snapshot_tx, event_tx, activity_tx, now,
                   inputs, last,
                   conn, registry>>

\* A call that clones the game before it writes.
CommitCloneFirst(t) ==
    /\ tasks[t].pc = "commit"
    /\ inner' = WriteBack(inner, tasks[t].view, tasks[t].pending.game)
    /\ lock' = Unlocked
    /\ IF tasks[t].pending.res.ok
       THEN SetTask(t, [tasks[t] EXCEPT !.pc = "touch", !.snapshot = inner,
                                        !.view = NoGame,
                                        !.pending = GameResult(NoGame, Ok)])
       ELSE SetTask(t, IdleTask)
    /\ UNCHANGED <<monitor, snapshot_tx, event_tx, activity_tx, now, inputs, last,
                   conn, registry>>

\* The call on the locked game: what it writes; then inner.clone() and the
\* release of the lock, or the early return of an error.
Commit(t) ==
    /\ tasks[t].pc = "commit"
    /\ inner' = WriteBack(inner, tasks[t].view, tasks[t].pending.game)
    /\ lock' = Unlocked
    /\ IF tasks[t].pending.res.ok
       THEN SetTask(t, [tasks[t] EXCEPT !.pc = "touch", !.snapshot = inner',
                                        !.view = NoGame,
                                        !.pending = GameResult(NoGame, Ok)])
       ELSE SetTask(t, IdleTask)
    /\ UNCHANGED <<monitor, snapshot_tx, event_tx, activity_tx, now, inputs, last,
                   conn, registry>>

\* Game::touch_activity
touch_activity == activity_tx' = WatchSend(activity_tx, now)

Touch(t) ==
    /\ tasks[t].pc = "touch"
    /\ touch_activity
    /\ SetTask(t, [tasks[t] EXCEPT !.pc = "event"])
    /\ UNCHANGED <<inner, lock, monitor, snapshot_tx, event_tx, now, inputs, last,
                   conn, registry>>

\* Game::publish_event with the call's semantic event
PublishEvent(t) ==
    /\ tasks[t].pc = "event"
    /\ event_tx' = BroadcastSend(event_tx, SemanticEvent(tasks[t].cmd))
    /\ SetTask(t, [tasks[t] EXCEPT !.pc = "snapshot"])
    /\ UNCHANGED <<inner, lock, monitor, snapshot_tx, activity_tx, now, inputs, last,
                   conn, registry>>

\* Game::publish_snapshot: the send on the watch channel
SendSnapshot(t) ==
    /\ tasks[t].pc = "snapshot"
    /\ snapshot_tx' = WatchSend(snapshot_tx, tasks[t].snapshot)
    /\ SetTask(t, [tasks[t] EXCEPT !.pc = "snapshot_event"])
    /\ UNCHANGED <<inner, lock, monitor, event_tx, activity_tx, now, inputs, last,
                   conn, registry>>

\* Game::publish_snapshot: the Snapshot event; the call returns Ok.
PublishSnapshotEvent(t) ==
    /\ tasks[t].pc = "snapshot_event"
    /\ event_tx' = BroadcastSend(event_tx, SnapshotEvent(tasks[t].snapshot))
    /\ SetTask(t, IdleTask)
    /\ UNCHANGED <<inner, lock, monitor, snapshot_tx, activity_tx, now, inputs, last,
                   conn, registry>>

\* GameCommand::Ping
Ping(t) ==
    /\ tasks[t].pc = "idle"
    /\ touch_activity
    /\ UNCHANGED <<inner, lock, tasks, monitor, snapshot_tx, event_tx, now,
                   inputs, last,
                   conn, registry>>

\* A subscriber of the events other than the connection followed takes
\* the oldest one.
Recv ==
    /\ event_tx.queue # << >>
    /\ conn.pc # "loop" \/ event_tx.rx > 1
    /\ event_tx' = [event_tx EXCEPT !.queue = Tail(event_tx.queue)]
    /\ UNCHANGED <<inner, lock, tasks, monitor, snapshot_tx, activity_tx, now,
                   inputs, last,
                   conn, registry>>

\* Game::subscribe_events: a handler attaches the receiver whose queue the
\* model follows.
Subscribe ==
    /\ event_tx.rx = 0
    /\ event_tx' = [event_tx EXCEPT !.rx = event_tx.rx + 1]
    /\ UNCHANGED <<inner, lock, tasks, monitor, snapshot_tx, activity_tx, now,
                   inputs, last,
                   conn, registry>>

(***************************************************************************)
(* The idle monitor (Game::run_timeout_loop).                              *)
(***************************************************************************)
IdleMonitor == [pc |-> "tick", snapshot |-> NoGame]

\* ticker.tick().await, the read of the activity slot and the idle test;
\* a tick may come at any time.
MonitorTick ==
    /\ monitor.pc = "tick"
    /\ IF now - activity_tx.value < GAME_IDLE_TIMEOUT
       THEN monitor' = monitor
       ELSE monitor' = [monitor EXCEPT !.pc = "acquire"]
    /\ UNCHANGED <<inner, lock, tasks, snapshot_tx, event_tx, activity_tx,
                   now, inputs, last,
                   conn, registry>>

\* A monitor that finishes the game whatever its state.
MonitorFinishAnyState ==
    /\ monitor.pc = "acquire"
    /\ WriteLockFree
    /\ lock' = lock
    /\ inner' = [inner EXCEPT !.state = Finished]
    /\ monitor' = [pc |-> "event", snapshot |-> inner']
    /\ UNCHANGED <<tasks, snapshot_tx, event_tx, activity_tx, now, inputs, last,
                   conn, registry>>

\* self.inner.write().await; under the lock: continue unless InProgress,
\* else force Finished and clone.
MonitorFinish ==
    /\ monitor.pc = "acquire"
    /\ WriteLockFree
    /\ lock' = lock
    /\ IF inner.state.tag # "InProgress"
       THEN /\ inner' = inner
            /\ monitor' = [monitor EXCEPT !.pc = "tick"]
       ELSE /\ inner' = [inner EXCEPT !.state = Finished]
            /\ monitor' = [pc |-> "event", snapshot |-> inner']
    /\ UNCHANGED <<tasks, snapshot_tx, event_tx, activity_tx, now, inputs, last,
                   conn, registry>>

MonitorEvent ==
    /\ monitor.pc = "event"
    /\ event_tx' = BroadcastSend(event_tx, FinishedEvent)
    /\ monitor' = [monitor EXCEPT !.pc = "snapshot"]
    /\ UNCHANGED <<inner, lock, tasks, snapshot_tx, activity_tx, now, inputs, last,
                   conn, registry>>

MonitorSendSnapshot ==
    /\ monitor.pc = "snapshot"
    /\ snapshot_tx' = WatchSend(snapshot_tx, monitor.snapshot)
    /\ monitor' = [monitor EXCEPT !.pc = "snapshot_event"]
    /\ UNCHANGED <<inner, lock, tasks, event_tx, activity_tx, now, inputs, last,
                   conn, registry>>

\* The Snapshot event, then break: the task ends.
MonitorSnapshotEvent ==
    /\ monitor.pc = "snapshot_event"
    /\ event_tx' = BroadcastSend(event_tx, SnapshotEvent(monitor.snapshot))
    /\ monitor' = [pc |-> "done", snapshot |-> NoGame]
    /\ UNCHANGED <<inner, lock, tasks, snapshot_tx, activity_tx, now, inputs, last,
                   conn, registry>>

\* Time passes.
Advance ==
    /\ now + TimeStep <= MaxNow
    /\ now' = now + TimeStep
    /\ UNCHANGED <<inner, lock, tasks, monitor, snapshot_tx, event_tx,
                   activity_tx, inputs, last,
                   conn, registry>>

(***************************************************************************)
(* The websocket handler (backend/src/routes/games.rs).  conn.out is the   *)
(* last message sent on the socket, conn.seq changes with each send,       *)
(* conn.joined is what join_player returned to game_ws and conn.got what   *)
(* events.recv() gave last.  The queue of event_tx is that of the earliest *)
(* receiver: the connection's own unless a subscriber came before it.      *)
(***************************************************************************)
NoConn ==
    [pc |-> "none", user |-> 0, out |-> NoEvent, seq |-> 0,
     joined |-> "none", got |-> "none"]

\* socket.send(Message::Text(event))
SocketSend(c, event) == [c EXCEPT !.out = event, !.seq = 1 - c.seq]

\* One whole call of the session with outcome out: the write under the
\* lock, then touch_activity, the semantic event, the snapshot slot and the
\* Snapshot event, or the early return of the error.
SessionCall(cmd, out) ==
    /\ WriteLockFree
    /\ inner' = out.game
    /\ IF out.res.ok
       THEN /\ touch_activity
            /\ event_tx' = BroadcastSend(
                               BroadcastSend(event_tx, SemanticEvent(cmd)),
                               SnapshotEvent(out.game))
            /\ snapshot_tx' = WatchSend(snapshot_tx, out.game)
       ELSE UNCHANGED <<activity_tx, event_tx, snapshot_tx>>

\* A handler that attaches the socket only when the join succeeded.
GameWsOkOnly ==
    /\ conn.pc = "connect"
    /\ LET out == join_player(inner, conn.user)
       IN  /\ SessionCall(JoinCmd(conn.user), out)
           /\ conn' = [conn EXCEPT !.joined = out.res.kind,
                                   !.pc = IF out.res.ok
                                          THEN "upgrade" ELSE "refused"]
    /\ UNCHANGED <<lock, tasks, monitor, now, inputs, last, registry>>

\* game_ws: join_player once; Ok and PlayerAlreadyInGame go on to the
\* upgrade, any other error is returned and the socket is never attached.
GameWs ==
    /\ conn.pc = "connect"
    /\ LET out == join_player(inner, conn.user)
       IN  /\ SessionCall(JoinCmd(conn.user), out)
           /\ conn' = [conn EXCEPT !.joined = out.res.kind,
                                   !.pc =
                          IF out.res.ok
                             \/ out.res.kind = "PlayerAlreadyInGame"
                          THEN "upgrade" ELSE "refused"]
    /\ UNCHANGED <<lock, tasks, monitor, now, inputs, last, registry>>

\* handle_game_socket: the initial Snapshot of game.snapshot(); the handler
\* returns if the send fails.
SendInitialSnapshot ==
    /\ conn.pc = "upgrade"
    /\ WriteLockFree
    /\ \/ conn' = [SocketSend(conn, SnapshotEvent(inner)) EXCEPT
                       !.pc = "subscribe"]
       \/ conn' = [conn EXCEPT !.pc = "closed"]
    /\ UNCHANGED <<inner, lock, tasks, monitor, snapshot_tx, event_tx,
                   activity_tx, now, inputs, last, registry>>

\* game.subscribe_events()
SubscribeEvents ==
    /\ conn.pc = "subscribe"
    /\ event_tx' = [event_tx EXCEPT !.rx = event_tx.rx + 1]
    /\ conn' = [conn EXCEPT !.pc = "loop"]
    /\ UNCHANGED <<inner, lock, tasks, monitor, snapshot_tx, activity_tx, now,
                   inputs, last, registry>>

\* The commands the connected user sends, Ping apart.
ConnCommands ==
    {StartCmd, EndTurnCmd(conn.user)}
    \cup {AttackCmd(from_id, to_id, conn.user) :
            from_id \in inputs.areas, to_id \in inputs.areas}

\* A handler that closes the connection when a command fails.
ExecuteCommandOrClose ==
    /\ conn.pc = "loop"
    /\ Len(event_tx.queue) < MaxBacklog
    /\ \E cmd \in ConnCommands : \E out \in Outcomes(inner, cmd) :
        /\ SessionCall(cmd, out)
        /\ conn' = IF out.res.ok THEN conn
                   ELSE [conn EXCEPT !.pc = "closed"]
    /\ UNCHANGED <<lock, tasks, monitor, now, inputs, last, registry>>

\* A text message that decodes as Start, Attack or EndTurn:
\* execute_command, and the Error event if the session rejects it.
ExecuteCommand ==
    /\ conn.pc = "loop"
    /\ Len(event_tx.queue) < MaxBacklog
    /\ \E cmd \in ConnCommands : \E out \in Outcomes(inner, cmd) :
        /\ SessionCall(cmd, out)
        /\ conn' = IF out.res.ok THEN conn
                   ELSE SocketSend(conn, ErrorEvent(out.res.kind))
    /\ UNCHANGED <<lock, tasks, monitor, now, inputs, last, registry>>

\* A text message that decodes as Ping.
PingCommand ==
    /\ conn.pc = "loop"
    /\ touch_activity
    /\ UNCHANGED <<inner, lock, tasks, monitor, snapshot_tx, event_tx, now,
                   inputs, last, conn, registry>>

\* A text message that does not decode as a GameCommand.
BadPayload ==
    /\ conn.pc = "loop"
    /\ conn' = SocketSend(conn, ErrorEvent("invalid command payload"))
    /\ UNCHANGED <<inner, lock, tasks, monitor, snapshot_tx, event_tx,
                   activity_tx, now, inputs, last, registry>>

\* events.recv() gives Ok(event): the event is forwarded.
ForwardEvent ==
    /\ conn.pc = "loop"
    /\ event_tx.rx = 1
    /\ event_tx.missed = 0
    /\ event_tx.queue # << >>
    /\ conn' = [SocketSend(conn, Head(event_tx.queue)) EXCEPT !.got = "event"]
    /\ event_tx' = [event_tx EXCEPT !.queue = Tail(event_tx.queue)]
    /\ UNCHANGED <<inner, lock, tasks, monitor, snapshot_tx, activity_tx, now,
                   inputs, last, registry>>

\* A handler that takes the oldest retained event when it has lagged.
HandleLaggedForward ==
    /\ conn.pc = "loop"
    /\ event_tx.rx = 1
    /\ event_tx.missed > 0
    /\ conn' = [SocketSend(conn, Head(event_tx.queue)) EXCEPT
                   !.got = "lagged"]
    /\ event_tx' = [event_tx EXCEPT !.missed = 0,
                                    !.queue = Tail(event_tx.queue)]
    /\ UNCHANGED <<inner, lock, tasks, monitor, snapshot_tx, activity_tx, now,
                   inputs, last, registry>>

\* events.recv() gives Err(Lagged): the receiver moves on to the oldest
\* retained event, and the handler sends a Snapshot of game.snapshot().
HandleLagged ==
    /\ conn.pc = "loop"
    /\ event_tx.rx = 1
    /\ event_tx.missed > 0
    /\ WriteLockFree
    /\ conn' = [SocketSend(conn, SnapshotEvent(inner)) EXCEPT
                   !.got = "lagged"]
    /\ event_tx' = [event_tx EXCEPT !.missed = 0]
    /\ UNCHANGED <<inner, lock, tasks, monitor, snapshot_tx, activity_tx, now,
                   inputs, last, registry>>

\* A Close frame, the end of the stream or a transport error: the handler
\* returns and its receiver is dropped.
SocketClose ==
    /\ conn.pc = "loop"
    /\ conn' = [conn EXCEPT !.pc = "closed"]
    /\ event_tx' = IF event_tx.rx = 1
                   THEN [rx |-> 0, queue |-> << >>, missed |-> 0]
                   ELSE [event_tx EXCEPT !.rx = event_tx.rx - 1]
    /\ UNCHANGED <<inner, lock, tasks, monitor, snapshot_tx, activity_tx, now,
                   inputs, last, registry>>

\* A command of another connection of the session, run as a whole while
\* the receiver followed has missed fewer than MaxMissed events.
OtherCall ==
    /\ event_tx.missed < MaxMissed
    /\ \E cmd \in Commands(FirstTask) : \E out \in Outcomes(inner, cmd) :
        SessionCall(cmd, out)
    /\ UNCHANGED <<lock, tasks, monitor, now, inputs, last, conn, registry>>

\* A call that has returned: its command, its result and the instant of
\* its return.
Returned(cmd, res) == [cmd |-> cmd, res |-> res, at |-> now]

\* join_player, start_game, attack or end_turn of the session run as a
\* whole, and the instant at which it returned.
TimedCall ==
    /\ \E cmd \in Commands(FirstTask) : \E out \in Outcomes(inner, cmd) :
        /\ SessionCall(cmd, out)
        /\ last' = Returned(cmd, out.res)
    /\ UNCHANGED <<lock, tasks, monitor, now, inputs, conn, registry>>

\* GameCommand::Ping run as a whole, and the instant at which it returned.
TimedPing ==
    /\ touch_activity
    /\ last' = Returned([NoCmd EXCEPT !.op = "ping"], Ok)
    /\ UNCHANGED <<inner, lock, tasks, monitor, snapshot_tx, event_tx, now,
                   inputs, conn, registry>>

(***************************************************************************)
(* The registry (backend/src/games/mod.rs).  registry.games maps the id of *)
(* each session to its game and to the flag that its snapshot slot has     *)
(* changed since the session's forwarding task last looked.                *)
(***************************************************************************)
\* Game::list_item
list_item(id, game) ==
    [id |-> id, player_count |-> Len(game.players), state |-> game.state]

\* The orders in which HashMap::values may give the sessions.
ListOrders(ids) ==
    { order \in [1..Cardinality(ids) -> ids] :
        \A i \in DOMAIN order, j \in DOMAIN order :
            order[i] = order[j] => i = j }

\* Games::list_games: one item per session, in the order of the map.
list_games(games) ==
    { [i \in DOMAIN order |-> list_item(order[i], games[order[i]].game)] :
        order \in ListOrders(DOMAIN games) }

\* Games::publish_list_snapshot on the sessions games
publish_list_snapshot(games) ==
    \E snapshot \in list_games(games) :
        registry' = [games |-> games,
                     list_tx |-> WatchSend(registry.list_tx, snapshot)]

RegistryFrame ==
    UNCHANGED <<inner, lock, tasks, monitor, snapshot_tx, event_tx,
                activity_tx, now, inputs, last, conn>>

\* Games::create_game: Game::new, the insert into the map, the forwarding
\* task, and publish_list_snapshot.
CreateGame ==
    /\ Cardinality(DOMAIN registry.games) < MaxGames
    /\ LET id == Cardinality(DOMAIN registry.games) + 1
           session == [game |-> GameNew(World(2, 2, StackMIN)),
                       changed |-> FALSE, pc |-> "changed",
                       snapshot |-> << >>]
       IN  publish_list_snapshot(
               [k \in DOMAIN registry.games \cup {id} |->
                   IF k = id THEN session ELSE registry.games[k]])
    /\ RegistryFrame

\* Games::subscribe_list, as list_games_sse calls it.
SubscribeList ==
    /\ registry.list_tx.rx < MaxListeners
    /\ registry' = [registry EXCEPT !.list_tx.rx = registry.list_tx.rx + 1]
    /\ RegistryFrame

\* A stream of the list ends: its receiver is dropped.
DropList ==
    /\ registry.list_tx.rx > 0
    /\ registry' = [registry EXCEPT !.list_tx.rx = registry.list_tx.rx - 1]
    /\ RegistryFrame

\* A user joins a registered session: its snapshot slot changes.
SessionJoin ==
    /\ \E id \in DOMAIN registry.games :
        LET game == registry.games[id].game
            out == join_player(game, Len(game.players) + 1)
        IN  /\ Len(game.players) < MaxJoins
            /\ out.res.ok
            /\ registry' = [registry EXCEPT
                               !.games[id].game = out.game,
                               !.games[id].changed = TRUE]
    /\ RegistryFrame

\* The task create_game spawned for a session: snapshots.changed()
\* resolves, and publish_list_snapshot reads the list with list_games.
ForwardRead ==
    /\ \E id \in DOMAIN registry.games :
        /\ registry.games[id].pc = "changed"
        /\ registry.games[id].changed
        /\ \E snapshot \in list_games(registry.games) :
            registry' = [registry EXCEPT
                            !.games[id].changed = FALSE,
                            !.games[id].pc = "send",
                            !.games[id].snapshot = snapshot]
    /\ RegistryFrame

\* The same task: publish_list_snapshot sends the list it read, and the
\* task waits for the next change.
ForwardSend ==
    /\ \E id \in DOMAIN registry.games :
        /\ registry.games[id].pc = "send"
        /\ registry' = [registry EXCEPT
                           !.games[id].pc = "changed",
                           !.games[id].snapshot = << >>,
                           !.list_tx = WatchSend(registry.list_tx,
                                           registry.games[id].snapshot)]
    /\ RegistryFrame

(***************************************************************************)
(* Direct calls on a common::Game, as the unit tests make them.            *)
(***************************************************************************)
NoCall ==
    [cmd |-> NoCmd, attack_r |-> 0, defense_r |-> 0, before |-> NoGame,
     res |-> Ok, turns |-> << >>]

\* game.attack(from_id, to_id, player_id); the rolls are drawn only once the
\* attack is validated.
AttackCall ==
    /\ last = NoCall
    /\ \E from_id \in inputs.areas, to_id \in inputs.areas,
       player_id \in inputs.attackers :
        LET valid == validate_attack(inner.world, from_id, to_id, player_id).ok
        IN  \E attack_r \in (IF valid THEN AttackDraws(inner, from_id)
                             ELSE {0}),
               defense_r \in (IF valid THEN DefenceDraws(inner, to_id)
                              ELSE {0}) :
                LET out == attack(inner, from_id, to_id, player_id,
                                  attack_r, defense_r)
                IN  /\ inner' = out.game
                    /\ last' = [cmd |-> AttackCmd(from_id, to_id, player_id),
                                attack_r |-> attack_r,
                                defense_r |-> defense_r,
                                before |-> inner, res |-> out.res,
                                turns |-> << >>]
                    /\ UNCHANGED <<lock, tasks, monitor, snapshot_tx,
                                   event_tx, activity_tx, now, inputs,
                                   conn, registry>>

\* world.validate_attack(from_id, to_id, player_id): the world is borrowed
\* immutably.
ValidateCall ==
    /\ last = NoCall
    /\ \E from_id \in inputs.areas, to_id \in inputs.areas,
         player_id \in inputs.attackers :
        last' = [NoCall EXCEPT
                    !.cmd = [AttackCmd(from_id, to_id, player_id) EXCEPT
                                !.op = "validate"],
                    !.before = inner,
                    !.res = validate_attack(inner.world, from_id, to_id,
                                            player_id)]
    /\ UNCHANGED <<inner, lock, tasks, monitor, snapshot_tx, event_tx,
                   activity_tx, now, inputs, conn, registry>>

\* The record of a call on the world: the result, and the world before.
WorldCall(op, id, player_id, res) ==
    [NoCall EXCEPT !.cmd = [op |-> op, player_id |-> player_id,
                            from_id |-> id, to_id |-> 0],
                   !.before = inner, !.res = res]

WorldFrame ==
    UNCHANGED <<lock, tasks, monitor, snapshot_tx, event_tx, activity_tx,
                now, inputs, conn, registry>>

\* area.stack.increment() on an area of the world
IncrementCall ==
    /\ \E id \in DOMAIN inner.world.areas :
        LET out == increment(inner.world.areas[id].stack)
        IN  /\ inner' = [inner EXCEPT !.world.areas[id].stack = out.count]
            /\ last' = WorldCall("increment", id, 0,
                                 IF out.ok THEN Ok ELSE Err(out.err, 0, 0))
    /\ WorldFrame

\* area.stack.decrement() on an area of the world
DecrementCall ==
    /\ \E id \in DOMAIN inner.world.areas :
        LET out == decrement(inner.world.areas[id].stack)
        IN  /\ inner' = [inner EXCEPT !.world.areas[id].stack = out.count]
            /\ last' = WorldCall("decrement", id, 0,
                                 IF out.ok THEN Ok ELSE Err(out.err, 0, 0))
    /\ WorldFrame

\* area.stack.clone().split(): the two parts are the a and b of the result.
SplitCall ==
    /\ \E id \in DOMAIN inner.world.areas :
        LET out == split(inner.world.areas[id].stack)
        IN  last' = WorldCall("split", id, 0,
                              IF out.ok
                              THEN [Ok EXCEPT !.a = out.left, !.b = out.right]
                              ELSE Err(out.err, 0, 0))
    /\ inner' = inner
    /\ WorldFrame

\* world.add_bonus_dice(player_id); the result's kind is the bool returned.
AddBonusDiceCall ==
    /\ \E player_id \in inputs.attackers :
        \E out \in add_bonus_dice(inner.world, player_id) :
            /\ inner' = [inner EXCEPT !.world = out.world]
            /\ last' = WorldCall("add_bonus_dice", 0, player_id,
                                 [Ok EXCEPT !.kind =
                                     IF out.placed THEN "true" ELSE "false"])
    /\ WorldFrame

\* The lowest and the highest value of a roll. Game::attack uses its two
\* rolls only in attack_roll > defense_roll, so these give every outcome
\* the call can have on the stacks rolled.
RollEnds(rolls) ==
    {r \in rolls : \/ \A other \in rolls : r <= other
                   \/ \A other \in rolls : r >= other}

\* game.attack(from_id, to_id, player_id), one call after another.
AttackAgain ==
    /\ \E from_id \in inputs.areas, to_id \in inputs.areas,
         player_id \in inputs.attackers :
        LET valid == validate_attack(inner.world, from_id, to_id, player_id).ok
        IN  \E attack_r \in (IF valid
                             THEN RollEnds(AttackDraws(inner, from_id))
                             ELSE {0}),
               defense_r \in (IF valid
                              THEN RollEnds(DefenceDraws(inner, to_id))
                              ELSE {0}) :
                LET out == attack(inner, from_id, to_id, player_id,
                                  attack_r, defense_r)
                IN  /\ inner' = out.game
                    /\ last' = [NoCall EXCEPT
                                   !.cmd = AttackCmd(from_id, to_id, player_id),
                                   !.before = inner, !.res = out.res]
    /\ WorldFrame

\* player.store_dice(amount) on the first player of the game.
StoreDiceCall ==
    /\ \E amount \in 0..MaxAmount :
        LET out == store_dice(inner.players[1], amount)
        IN  /\ inner' = [inner EXCEPT !.players[1] = out.player]
            /\ last' = [NoCall EXCEPT
                          !.cmd = [op |-> "store_dice", amount |-> amount],
                          !.before = inner,
                          !.res = IF out.panic THEN Err("panic", 0, 0)
                                  ELSE Ok]
    /\ WorldFrame

\* world.largest_connected_group(player_id), the map giving its areas in
\* any order.
LargestGroupCall ==
    /\ \E player_id \in inputs.attackers,
         order \in ListOrders(DOMAIN inner.world.areas) :
        last' = [NoCall EXCEPT
                   !.cmd = [op |-> "largest_connected_group",
                            player_id |-> player_id, order |-> order],
                   !.res = [Ok EXCEPT !.a =
                              largest_connected_group(inner.world, order,
                                                      player_id)]]
    /\ inner' = inner
    /\ WorldFrame

\* self.is_adjacent(&other) on two tiles, in either order.
TileIsAdjacentCall ==
    /\ \E pair \in {<<inputs.self, inputs.other>>,
                     <<inputs.other, inputs.self>>} :
        last' = [NoCall EXCEPT
                   !.cmd = [op |-> "tile_is_adjacent",
                            self |-> pair[1], other |-> pair[2]],
                   !.res = [Ok EXCEPT !.kind =
                              IF TileIsAdjacent(pair[1], pair[2])
                              THEN "true" ELSE "false"]]
    /\ inner' = inner
    /\ WorldFrame

\* self.is_adjacent(&other) on two areas, in either order: one area has
\* the tiles self and extra, the other the tile other.
AreaIsAdjacentCall ==
    /\ \E pair \in {<<{inputs.self, inputs.extra}, {inputs.other}>>,
                     <<{inputs.other}, {inputs.self, inputs.extra}>>} :
        last' = [NoCall EXCEPT
                   !.cmd = [op |-> "area_is_adjacent",
                            self |-> pair[1], other |-> pair[2]],
                   !.res = [Ok EXCEPT !.kind =
                              IF AreaIsAdjacent([tiles |-> pair[1]],
                                                [tiles |-> pair[2]])
                              THEN "true" ELSE "false"]]
    /\ inner' = inner
    /\ WorldFrame

(***************************************************************************)
(* Initial states and specifications.                                      *)
(***************************************************************************)
\* The game after the users 1..count joined one after the other.
RECURSIVE Joined(_, _)
Joined(game, count) ==
    IF count = 0 THEN game
    ELSE join_player(Joined(game, count - 1), count).game

\* Games::create_game: Game::new, whose receivers are dropped at once, then
\* the registry's subscribe_snapshot.  count users have joined since.
SessionOf(game, users, attackers, areas) ==
    /\ inner = game
    /\ lock = Unlocked
    /\ tasks = [t \in Tasks |-> IdleTask]
    /\ monitor = IdleMonitor
    /\ snapshot_tx = [value |-> game, rx |-> 1]
    /\ event_tx = [rx |-> 0, queue |-> << >>, missed |-> 0]
    /\ activity_tx = [value |-> 0, rx |-> 0]
    /\ now = 0
    /\ inputs = [users |-> users, attackers |-> attackers, areas |-> areas]

SessionInit(game, users, attackers, areas) ==
    /\ SessionOf(game, users, attackers, areas)
    /\ last = NoCall
    /\ conn = NoConn
    /\ registry = NoRegistry

\* One handler at a time, the idle monitor and the clock.
Init ==
    \E world \in SessionWorlds :
        SessionInit(GameNew(world), [t \in Tasks |-> PlayerIds], {1, 2, 3},
                    {1, 2})


Next ==
    \/ Acquire(FirstTask)
    \/ Commit(FirstTask)
    \/ Touch(FirstTask)
    \/ PublishEvent(FirstTask)
    \/ SendSnapshot(FirstTask)
    \/ PublishSnapshotEvent(FirstTask)
    \/ Ping(FirstTask)
    \/ Subscribe
    \/ Recv
    \/ MonitorTick
    \/ MonitorFinish
    \/ MonitorEvent
    \/ MonitorSendSnapshot
    \/ MonitorSnapshotEvent
    \/ Advance

Spec == Init /\ [][Next]_vars

\* The runtime schedules the monitor task and the handler, and the RwLock
\* is fair: a waiting writer gets the lock once it has been released often
\* enough.
FairSpec ==
    /\ Spec
    /\ WF_vars(MonitorTick)
    /\ SF_vars(MonitorFinish)
    /\ WF_vars(MonitorEvent)
    /\ WF_vars(MonitorSendSnapshot)
    /\ WF_vars(MonitorSnapshotEvent)
    /\ WF_vars(Commit(FirstTask))

\* Handlers racing on one session, each the connection of one user, seen
\* through the game and the snapshot slot (no receiver of the events is
\* followed, and the events sent change neither): a new
\* session, or one that all but one of the players it has room for have
\* joined; the racing users are the last of them and two more.
PrejoinedCounts == {0, MAX_PLAYERS - 1}

RaceUsers(count) == {id \in (count)..(count + 2) : id >= 1}

\* The user of each handler.  Handlers are alike and ids are compared for
\* equality only: the first handler has the lowest id, and each next one
\* the id of the handler before it or the next id.
RaceAssignments(count) ==
    { user_of \in [Tasks -> RaceUsers(count)] :
        /\ user_of[1] <= count + 1
        /\ \A t \in Tasks \ {1} :
            user_of[t] \in {user_of[t - 1], user_of[t - 1] + 1} }

InitConcurrent ==
    \E count \in PrejoinedCounts :
        \E user_of \in RaceAssignments(count) :
            SessionInit(Joined(GameNew(World(2, 2, StackMIN)), count),
                        [t \in Tasks |-> {user_of[t]}],
                        RaceUsers(count), {1, 2})

NextConcurrent ==
    \/ \E t \in Tasks :
        \/ Acquire(t)
        \/ Commit(t)
        \/ Touch(t)
        \/ PublishEvent(t)
        \/ SendSnapshot(t)
        \/ PublishSnapshotEvent(t)
        \/ Ping(t)

SpecConcurrent == InitConcurrent /\ [][NextConcurrent]_vars

\* The same handlers and a receiver of the event channel that subscribes
\* at some point and keeps every event it is sent from then on.
NextOrder ==
    \/ NextConcurrent
    \/ Subscribe

SpecOrder == InitConcurrent /\ [][NextOrder]_vars

\* Attacks on games built directly: two players, any owners and stacks of
\* the two adjacent areas, either player's turn.
AttackGames ==
    { [world |-> [areas |-> [id \in AreaIds |->
                    IF id = 1 THEN Area(1, 1, stack1)
                    ELSE IF id = 2 THEN Area(2, owner2, stack2)
                    ELSE Area(3, NoOwner, StackMIN)]],
       players |-> <<PlayerNew(1, ColorTryFrom(0).color),
                     PlayerNew(2, ColorTryFrom(1).color)>>,
       state |-> InProgress(turn)] :
        stack1 \in StackMIN..StackMAX, stack2 \in StackMIN..StackMAX,
        owner2 \in {NoOwner, 2}, turn \in {0, 1} }

InitAttack ==
    \E game \in AttackGames :
        SessionInit(game, [t \in Tasks |-> {1, 2}], {1, 2},
                    AreaIds \cup {MissingAreaId})

NextAttack ==
    \/ AttackCall
    \/ ValidateCall

SpecAttack == InitAttack /\ [][NextAttack]_vars

\* game.next_turn(player_id) by a player of the game or by an outsider;
\* last.turns lists the turn indexes held so far.
NextTurnCall ==
    /\ Len(last.turns) < MAX_PLAYERS + ExtraTurns
    /\ \E player_id \in 1..(Len(inner.players) + 1) :
        LET out == next_turn(inner, player_id)
        IN  /\ inner' = out.game
            /\ last' = [cmd |-> EndTurnCmd(player_id),
                        attack_r |-> 0, defense_r |-> 0,
                        before |-> inner, res |-> out.res,
                        turns |-> IF out.res.ok
                                  THEN Append(last.turns,
                                              out.game.state.turn)
                                  ELSE last.turns]
            /\ UNCHANGED <<lock, tasks, monitor, snapshot_tx, event_tx,
                           activity_tx, now, inputs,
                           conn, registry>>

\* Games of 2 to MAX_PLAYERS players built directly: not started, started
\* with any first player, or finished.
TurnGames ==
    UNION { LET joined == Joined(GameNew(World(2, 2, StackMIN)), count)
            IN  {joined, [joined EXCEPT !.state = Finished]}
                \cup {start(joined, first).game :
                        first \in random_range(count)} :
            count \in 2..MAX_PLAYERS }

InitTurn ==
    \E game \in TurnGames :
        /\ SessionOf(game, [t \in Tasks |-> PlayerIds], {}, {})
        /\ conn = NoConn
        /\ registry = NoRegistry
        /\ last = [NoCall EXCEPT !.turns =
                       IF game.state.tag = "InProgress"
                       THEN <<game.state.turn>> ELSE << >>]

NextTurn == NextTurnCall

SpecTurn == InitTurn /\ [][NextTurn]_vars

\* The state around a value that no session holds.
DirectInit ==
    /\ lock = Unlocked
    /\ tasks = [t \in Tasks |-> IdleTask]
    /\ monitor = IdleMonitor
    /\ snapshot_tx = [value |-> NoGame, rx |-> 0]
    /\ event_tx = [rx |-> 0, queue |-> << >>, missed |-> 0]
    /\ activity_tx = [value |-> 0, rx |-> 0]
    /\ now = 0
    /\ last = NoCall
    /\ conn = NoConn
    /\ registry = NoRegistry

\* Calls on the stacks and the world of a game built directly, one after
\* another: every stack of the two adjacent areas, the second area owned
\* by the second player or by nobody.
InitWorld ==
    /\ \E game \in {g \in AttackGames : g.state.turn = 0} : inner = game
    /\ inputs = [users |-> [t \in Tasks |-> {1, 2}],
                 attackers |-> {1, 2},
                 areas |-> AreaIds \cup {MissingAreaId}]
    /\ DirectInit

NextWorld ==
    \/ AddBonusDiceCall
    \/ AttackAgain

SpecWorld == InitWorld /\ [][NextWorld]_vars

\* Tile::new(x, y) for every x and y up to MaxCoord.
TileGrid == (0..MaxCoord) \X (0..MaxCoord)

\* Adjacency asked of every two tiles of the grid, and of the areas made
\* of them and a third tile.
InitTile ==
    /\ \E self \in TileGrid, other \in TileGrid, extra \in TileGrid :
        inputs = [self |-> self, other |-> other, extra |-> extra]
    /\ inner = NoGame
    /\ DirectInit

NextTile ==
    \/ TileIsAdjacentCall
    \/ AreaIsAdjacentCall

SpecTile == InitTile /\ [][NextTile]_vars

\* Worlds of three areas of one tile each, on distinct tiles of two
\* columns, each area held by one of two players or by nobody.
GroupWorlds ==
    { [areas |-> [id \in AreaIds |->
          [id |-> id, owner |-> owners[id], tiles |-> {tiles[id]},
           stack |-> StackMIN]]] :
        owners \in [AreaIds -> {NoOwner, 1, 2}],
        tiles \in { t \in [AreaIds -> (0..1) \X (0..2)] :
                      \A i \in AreaIds, j \in AreaIds :
                          t[i] = t[j] => i = j } }

InitGroup ==
    /\ \E world \in GroupWorlds : inner = GameNew(world)
    /\ inputs = [attackers |-> {1, 2}]
    /\ DirectInit

NextGroup == LargestGroupCall

SpecGroup == InitGroup /\ [][NextGroup]_vars

\* A player made by Player::new, whose pool is then stored into.
InitPlayer ==
    /\ inner = [NoGame EXCEPT
                  !.players = <<PlayerNew(1, ColorTryFrom(0).color)>>]
    /\ inputs = [attackers |-> {1}]
    /\ DirectInit

NextPlayer == StoreDiceCall

SpecPlayer == InitPlayer /\ [][NextPlayer]_vars

\* Calls on the stacks of such a world, one after another.
NextStack ==
    \/ IncrementCall
    \/ DecrementCall
    \/ SplitCall

SpecStack == InitWorld /\ [][NextStack]_vars

\* One websocket connection from its request on: a session that 0, 1, 2 or
\* MAX_PLAYERS users have joined, not started, started or finished; the
\* connecting user is the first player or a user who has not joined.
SocketGames ==
    UNION { LET joined == Joined(GameNew(World(2, 2, StackMIN)), count)
            IN  {joined, [joined EXCEPT !.state = Finished]}
                \cup (IF count < 2 THEN {}
                      ELSE {start(joined, first).game :
                              first \in random_range(count)}) :
            count \in {0, 1, 2, MAX_PLAYERS} }

InitSocket ==
    \E game \in SocketGames :
        \E user \in ({1} \cap PlayerIdsOf(game))
                     \cup {Len(game.players) + 1} :
            /\ SessionOf(game, [t \in Tasks |-> {user}], {user}, {1, 2})
            /\ last = NoCall
            /\ conn = [NoConn EXCEPT !.pc = "connect", !.user = user]
            /\ registry = NoRegistry

NextSocket ==
    \/ Subscribe
    \/ Recv
    \/ GameWs
    \/ SendInitialSnapshot
    \/ SubscribeEvents
    \/ ExecuteCommand
    \/ PingCommand
    \/ BadPayload
    \/ ForwardEvent
    \/ SocketClose

SpecSocket == InitSocket /\ [][NextSocket]_vars

\* A connection that subscribes and then takes its events at any pace
\* while the two players of a started game end their turns through other
\* connections.
InitLag ==
    \E first \in random_range(2) :
        /\ SessionOf(start(Joined(GameNew(World(2, 2, StackMIN)), 2),
                           first).game,
                     [t \in Tasks |-> {1, 2}], {}, {})
        /\ last = NoCall
        /\ conn = [NoConn EXCEPT !.pc = "subscribe", !.user = 1]
        /\ registry = NoRegistry

NextLag ==
    \/ SubscribeEvents
    \/ OtherCall
    \/ ForwardEvent
    \/ HandleLagged

SpecLag == InitLag /\ [][NextLag]_vars

\* A connection from its upgrade on, while the two players of a started
\* game end their turns through other connections.
InitGap ==
    \E first \in random_range(2) :
        /\ SessionOf(start(Joined(GameNew(World(2, 2, StackMIN)), 2),
                           first).game,
                     [t \in Tasks |-> {1, 2}], {}, {})
        /\ last = NoCall
        /\ conn = [NoConn EXCEPT !.pc = "upgrade", !.user = 1]
        /\ registry = NoRegistry

NextGap ==
    \/ SendInitialSnapshot
    \/ SubscribeEvents
    \/ OtherCall
    \/ ForwardEvent
    \/ HandleLagged

SpecGap == InitGap /\ [][NextGap]_vars

\* The idle monitor of a started two-player game, the clock, and the calls
\* and pings of its connections, each with the instant of its return.
InitIdle ==
    \E first \in random_range(2) :
        /\ SessionOf(start(Joined(GameNew(World(2, 2, StackMIN)), 2),
                           first).game,
                     [t \in Tasks |-> {1, 2}], {1, 2}, {1, 2})
        /\ last = [cmd |-> NoCmd, res |-> Ok, at |-> 0]
        /\ conn = NoConn
        /\ registry = NoRegistry

NextIdle ==
    \/ TimedCall
    \/ TimedPing
    \/ MonitorTick
    \/ MonitorFinish
    \/ MonitorEvent
    \/ MonitorSendSnapshot
    \/ MonitorSnapshotEvent
    \/ Advance

SpecIdle == InitIdle /\ [][NextIdle]_vars

\* The registry from Games::default on; the variables of a session play
\* no part.
InitRegistry ==
    SessionInit(NoGame, [t \in Tasks |-> {}], {}, {})

NextRegistry ==
    \/ CreateGame
    \/ SubscribeList
    \/ DropList
    \/ SessionJoin
    \/ ForwardRead
    \/ ForwardSend

SpecRegistry == InitRegistry /\ [][NextRegistry]_vars

\* The registry while one stream of the list stays open: it subscribed
\* before the first session was created.
InitList ==
    /\ SessionOf(NoGame, [t \in Tasks |-> {}], {}, {})
    /\ last = NoCall
    /\ conn = NoConn
    /\ registry = [NoRegistry EXCEPT !.list_tx.rx = 1]

NextList ==
    \/ CreateGame
    \/ SessionJoin
    \/ ForwardRead
    \/ ForwardSend

SpecList == InitList /\ [][NextList]_vars

(***************************************************************************)
(* Properties.                                                             *)
(***************************************************************************)
\* The step in which the call of task t leaves the locked section.
CommitStep(t) == tasks[t].pc = "commit" /\ tasks'[t].pc # "commit"

AllIdle == \A t \in Tasks : tasks[t].pc = "idle"

DistinctPlayerIds(game) ==
    \A i, j \in 1..Len(game.players) :
        i # j => game.players[i].id # game.players[j].id

C1_Step ==
    /\ \A t \in Tasks :
        CommitStep(t) =>
            GameResult(inner', tasks[t].pending.res)
                \in Outcomes(inner, tasks[t].cmd)
    /\ inner' # inner => \E t \in Tasks : CommitStep(t)

\* C1: the mutating calls of concurrent handlers take effect one at a time:
\* the game changes only when a call leaves the locked section, and then
\* the new game and the call's result are what the call gives when applied
\* alone to the game as it was; so the players' ids stay distinct (two
\* joins of one id leave one entry) and never more than MAX_PLAYERS join.
C1_Linearizable ==
    /\ [](Len(inner.players) <= MAX_PLAYERS /\ DistinctPlayerIds(inner))
    /\ [][C1_Step]_vars

\* C1: a join has succeeded and is publishing while another handler's join
\* of the same id, begun after it, is about to fail.
C1_Witness ==
    \E t \in Tasks, u \in Tasks :
        /\ t # u
        /\ tasks[t].cmd.op = "join"
        /\ tasks[t].pc \in {"touch", "event", "snapshot", "snapshot_event"}
        /\ tasks[u].cmd = tasks[t].cmd
        /\ tasks[u].pc = "commit"
        /\ tasks[u].pending.res.kind = "PlayerAlreadyInGame"

\* C2: whenever no mutating call is in flight, the latest-snapshot slot of
\* a session the registry created holds the game the session's snapshot()
\* returns.
C2_SlotIsCurrent == AllIdle => snapshot_tx.value = inner

C3_Step ==
    \A t \in Tasks :
        (CommitStep(t) /\ ~tasks[t].pending.res.ok) =>
            /\ inner' = tasks[t].view
            /\ inner' = inner
            /\ snapshot_tx' = snapshot_tx
            /\ event_tx' = event_tx
            /\ activity_tx' = activity_tx
            /\ tasks'[t].pc = "idle"

\* C3: a join, start, attack or end_turn that returns an error leaves the
\* game exactly as it was when the call began, and the call publishes no
\* event, sends no snapshot and does not touch the activity slot.
C3_AllOrNothing == [][C3_Step]_vars

\* C3: an attack is about to return an error while a subscriber listens.
C3_Witness ==
    /\ tasks[FirstTask].pc = "commit"
    /\ tasks[FirstTask].cmd.op = "attack"
    /\ ~tasks[FirstTask].pending.res.ok
    /\ event_tx.rx > 0
    /\ inner.state.tag = "InProgress"

StateRank(state) ==
    IF state.tag = "WaitingForPlayers" THEN 0
    ELSE IF state.tag = "InProgress" THEN 1
    ELSE 2

\* C4: the state of a game only moves forward, WaitingForPlayers then
\* InProgress then Finished, and a Finished game stays Finished.
C4_StateMonotonic ==
    [][/\ StateRank(inner'.state) >= StateRank(inner.state)
       /\ inner.state = Finished => inner'.state = Finished]_vars

\* C4: a start is called on a game the monitor has finished.
C4_Witness ==
    /\ inner.state = Finished
    /\ tasks[FirstTask].pc = "commit"
    /\ tasks[FirstTask].cmd.op = "start"

MonitorRank ==
    [pc \in {"tick", "acquire", "event", "snapshot", "snapshot_event", "done"}
        |-> IF pc \in {"tick", "acquire"} THEN 0
            ELSE IF pc = "event" THEN 1
            ELSE IF pc = "snapshot" THEN 2
            ELSE IF pc = "snapshot_event" THEN 3
            ELSE 4]

IdleTooLong == now - activity_tx.value >= GAME_IDLE_TIMEOUT

C5_Step ==
    \* the monitor changes the game only from InProgress to Finished
    /\ (monitor' # monitor /\ inner' # inner) =>
            /\ inner.state.tag = "InProgress"
            /\ IdleTooLong
            /\ inner' = [inner EXCEPT !.state = Finished]
    \* and nothing but the monitor finishes it
    /\ (inner.state # Finished /\ inner'.state = Finished) =>
            monitor.pc = "acquire" /\ monitor'.pc = "event"
    \* the step after it publishes the Finished event, with a reason
    /\ (monitor.pc = "event" /\ monitor' # monitor) =>
            /\ monitor'.pc = "snapshot"
            /\ \E e \in {FinishedEvent} :
                /\ e.type = "Finished"
                /\ e.reason # ""
                /\ event_tx' = BroadcastSend(event_tx, e)
    \* no other step publishes a Finished event
    /\ (/\ Len(event_tx'.queue) > Len(event_tx.queue)
        /\ event_tx'.queue[Len(event_tx'.queue)].type = "Finished") =>
            monitor.pc = "event" /\ monitor'.pc = "snapshot"
    \* the monitor never goes back, and stops for good
    /\ MonitorRank[monitor'.pc] >= MonitorRank[monitor.pc]
    /\ monitor.pc = "done" => monitor' = monitor

\* C5: an InProgress game whose activity slot is older than the idle
\* threshold is eventually Finished with the monitor stopped; the monitor
\* finishes a game once, only from InProgress, publishes one Finished
\* event with a non-empty reason, and changes no game in another state.
C5_IdleTimeout ==
    /\ (inner.state.tag = "InProgress" /\ IdleTooLong)
            ~> (inner.state = Finished /\ monitor.pc = "done")
    /\ [][C5_Step]_vars

\* C5: the monitor has finished an idle game and a subscriber has the
\* Finished event in its queue.
C5_Witness ==
    /\ inner.state = Finished
    /\ monitor.pc = "snapshot"
    /\ event_tx.queue # << >>
    /\ event_tx.queue[Len(event_tx.queue)] = FinishedEvent

\* A call of operation op: the task holds the lock, has read the game
\* (view) and computed its outcome (pending).
Calling(t, op) == tasks[t].pc = "commit" /\ tasks[t].cmd.op = op

\* C6 as stated: a join of an InProgress game fails with GameStarted for
\* every joining id and every number of players.
C6_AlwaysGameStarted ==
    \A t \in Tasks :
        (Calling(t, "join") /\ tasks[t].view.state.tag = "InProgress") =>
            tasks[t].pending.res.kind = "GameStarted"

\* C6, amended: a join of an InProgress game always fails and leaves the
\* game unchanged; the error is PlayerAlreadyInGame for the id of a
\* player of the game, else GameFull when MAX_PLAYERS players have joined,
\* and GameStarted otherwise.
C6_JoinAfterStart ==
    \A t \in Tasks :
        (Calling(t, "join") /\ tasks[t].view.state.tag = "InProgress") =>
            /\ ~tasks[t].pending.res.ok
            /\ tasks[t].pending.game = tasks[t].view
            /\ tasks[t].pending.res.kind =
                 IF HasPlayer(tasks[t].view, tasks[t].cmd.player_id)
                 THEN "PlayerAlreadyInGame"
                 ELSE IF Len(tasks[t].view.players) >= MAX_PLAYERS
                 THEN "GameFull"
                 ELSE "GameStarted"

\* C6: a new id joins a game started with fewer than MAX_PLAYERS players.
C6_Witness ==
    /\ Calling(FirstTask, "join")
    /\ tasks[FirstTask].view.state.tag = "InProgress"
    /\ Len(tasks[FirstTask].view.players) \in 2..(MAX_PLAYERS - 1)
    /\ tasks[FirstTask].pending.res.kind = "GameStarted"

\* C7: start succeeds exactly on a WaitingForPlayers game with 2 to
\* MAX_PLAYERS players, and then the game is InProgress with a turn index
\* below the number of players and the same players; with fewer than 2
\* players it fails with NotEnoughPlayers, on a game in another state with
\* GameStarted, and a failed start changes nothing.
C7_Start ==
    \A t \in Tasks :
        Calling(t, "start") =>
            LET game == tasks[t].view
                out == tasks[t].pending
                count == Len(game.players)
            IN  /\ out.res.ok <=>
                     (game.state = WaitingForPlayers
                        /\ count \in 2..MAX_PLAYERS)
                /\ out.res.ok =>
                     /\ out.game.state.tag = "InProgress"
                     /\ out.game.state.turn \in 0..(count - 1)
                     /\ out.game.players = game.players
                     /\ out.game.world = game.world
                /\ ~out.res.ok =>
                     /\ out.game = game
                     /\ out.res.kind =
                          IF game.state # WaitingForPlayers
                          THEN "GameStarted"
                          ELSE "NotEnoughPlayers"

\* C7: a start of a full game draws its last player as the first to move.
C7_Witness ==
    /\ Calling(FirstTask, "start")
    /\ Len(tasks[FirstTask].view.players) = MAX_PLAYERS
    /\ tasks[FirstTask].pending.res.ok
    /\ tasks[FirstTask].pending.game.state.turn = MAX_PLAYERS - 1

Attacked == last.cmd.op = "attack" /\ last.res.ok

\* C8: after a successful attack the attacking area is in the world, holds
\* StackMIN units and belongs to the attacker, and the world has as many
\* areas as before.
C8_FromAfterAttack ==
    Attacked =>
        /\ last.cmd.from_id \in DOMAIN inner.world.areas
        /\ inner.world.areas[last.cmd.from_id].stack = StackMIN
        /\ is_owned_by(inner.world.areas[last.cmd.from_id],
                       last.cmd.player_id)
        /\ Cardinality(DOMAIN inner.world.areas) =
             Cardinality(DOMAIN last.before.world.areas)

\* C8: an attack from a stack of more than two units was lost.
C8_Witness ==
    /\ Attacked
    /\ last.before.world.areas[last.cmd.from_id].stack > 2
    /\ last.attack_r < last.defense_r

\* C9: after a successful attack from a stack of n units, the target
\* belongs to the attacker with n - 1 units if the attack roll was
\* strictly greater than the defense roll, and else has the owner and the
\* units it had.
C9_TargetAfterAttack ==
    Attacked =>
        LET n == last.before.world.areas[last.cmd.from_id].stack
            before == last.before.world.areas[last.cmd.to_id]
            after == inner.world.areas[last.cmd.to_id]
        IN  IF last.attack_r > last.defense_r
            THEN /\ after.owner = last.cmd.player_id
                 /\ after.stack = n - 1
            ELSE /\ after.owner = before.owner
                 /\ after.stack = before.stack

\* C9: an attack on another player's area ended with equal rolls.
C9_Witness ==
    /\ Attacked
    /\ last.attack_r = last.defense_r
    /\ last.before.world.areas[last.cmd.to_id].owner
         \notin {NoOwner, last.cmd.player_id}

\* C10: an attack on a game that is not InProgress is rejected and leaves
\* the world unchanged.
C10_AttackOnlyInProgress ==
    \A t \in Tasks :
        (Calling(t, "attack") /\ tasks[t].view.state.tag # "InProgress") =>
            /\ ~tasks[t].pending.res.ok
            /\ tasks[t].pending.game.world = tasks[t].view.world

\* What an end of turn by player_id on game must give.
EndTurnExpected(game, player_id, out) ==
    IF game.state = Finished
    THEN out = GameResult(game, Err("GameFinished", 0, 0))
    ELSE IF game.state = WaitingForPlayers
    THEN out = GameResult(game, Err("GameNotStarted", 0, 0))
    ELSE IF CurrentPlayerId(game) # player_id
    THEN out = GameResult(game, Err("NotPlayerTurn", 0, 0))
    ELSE out = GameResult(
                   [game EXCEPT !.state =
                       InProgress((game.state.turn + 1)
                                      % Len(game.players))],
                   Ok)

C11_Step ==
    \A t \in Tasks :
        (CommitStep(t) /\ tasks[t].cmd.op = "end_turn"
            /\ ~tasks[t].pending.res.ok) =>
                /\ inner' = inner
                /\ event_tx' = event_tx
                /\ tasks'[t].pc = "idle"

\* C11: an end of turn by the turn-holder of an InProgress game with N
\* players sets the turn to (turn + 1) mod N; by another player it fails
\* with NotPlayerTurn, on a Finished game with GameFinished, on a
\* WaitingForPlayers game with GameNotStarted; a failed end of turn leaves
\* the game unchanged and publishes no event.  Checked of Game::next_turn
\* on every reachable game and of the session's end_turn.
C11_EndTurn ==
    /\ [](/\ \A player_id \in PlayerIds :
               EndTurnExpected(inner, player_id,
                               next_turn(inner, player_id))
          /\ \A t \in Tasks :
               Calling(t, "end_turn") =>
                   EndTurnExpected(tasks[t].view, tasks[t].cmd.player_id,
                                   tasks[t].pending))
    /\ [][C11_Step]_vars

\* C11: the last of at least three players ends the turn and the turn
\* wraps to the first.
C11_Witness ==
    /\ Calling(FirstTask, "end_turn")
    /\ Len(tasks[FirstTask].view.players) >= 3
    /\ tasks[FirstTask].view.state.turn
         = Len(tasks[FirstTask].view.players) - 1
    /\ tasks[FirstTask].pending.res.ok
    /\ tasks[FirstTask].pending.game.state.turn = 0

\* C12: with N players, the turn index N successful ends of turn later is
\* the same, and the N turns of such a cycle are held by N different
\* players: every index 0..N-1 once.
C12_TurnCycle ==
    LET count == Len(inner.players)
    IN  \A i \in 1..Len(last.turns) :
            /\ last.turns[i] \in 0..(count - 1)
            /\ i + count <= Len(last.turns) =>
                /\ last.turns[i + count] = last.turns[i]
                /\ {last.turns[j] : j \in i..(i + count - 1)}
                     = 0..(count - 1)

\* C12: MAX_PLAYERS players have ended their turns in a row, starting
\* from a player who is not the first.
C12_Witness ==
    /\ Len(inner.players) = MAX_PLAYERS
    /\ Len(last.turns) = MAX_PLAYERS + 1
    /\ last.turns[1] > 0
    /\ last.res.ok

C13_Step ==
    \/ inner'.players = inner.players
    \/ \E t \in Tasks :
        /\ CommitStep(t)
        /\ tasks[t].cmd.op = "join"
        /\ tasks[t].pending.res.ok
        /\ Len(inner'.players) = Len(inner.players) + 1
        /\ SubSeq(inner'.players, 1, Len(inner.players)) = inner.players
        /\ inner'.players[Len(inner'.players)].id = tasks[t].cmd.player_id

\* C13: the players are listed in the order of their successful joins, the
\* n-th of them has the n-th colour of Color::ALL, and no two players of a
\* game share a colour.
C13_Colours ==
    /\ [](/\ \A n \in 1..Len(inner.players) :
               inner.players[n].color = ColorALL[n]
          /\ \A i, j \in 1..Len(inner.players) :
               i # j => inner.players[i].color # inner.players[j].color)
    /\ [][C13_Step]_vars

\* C13: MAX_PLAYERS players have joined, after a join that failed.
C13_Witness ==
    /\ Len(inner.players) = MAX_PLAYERS
    /\ inner.players[MAX_PLAYERS].color = "Orange"
    /\ Calling(FirstTask, "join")
    /\ ~tasks[FirstTask].pending.res.ok

\* The kind of the semantic event of each operation.
EventKindOf(op) ==
    IF op = "join" THEN "PlayerJoined"
    ELSE IF op = "start" THEN "GameStarted"
    ELSE IF op = "attack" THEN "AttackResolved"
    ELSE "TurnEnded"

\* tx after one event e with e.type = type (and, for a Snapshot, e.game =
\* game) was sent on it.
SentOne(tx, txAfter, type, game) ==
    IF tx.rx = 0 THEN txAfter = tx
    ELSE /\ txAfter.rx = tx.rx
         /\ Len(txAfter.queue) = Len(tx.queue) + 1
         /\ SubSeq(txAfter.queue, 1, Len(tx.queue)) = tx.queue
         /\ txAfter.queue[Len(txAfter.queue)].type = type
         /\ txAfter.queue[Len(txAfter.queue)].game = game

\* The steps of a successful call, in their order.
C14_CallStep(t) ==
    /\ (CommitStep(t) /\ tasks[t].pending.res.ok) =>
            /\ tasks'[t].pc = "touch"
            /\ inner' = tasks[t].pending.game
            /\ tasks'[t].snapshot = inner'
            /\ event_tx' = event_tx /\ snapshot_tx' = snapshot_tx
    /\ (tasks[t].pc = "touch" /\ tasks'[t] # tasks[t]) =>
            /\ tasks'[t].pc = "event"
            /\ event_tx' = event_tx /\ snapshot_tx' = snapshot_tx
    /\ (tasks[t].pc = "event" /\ tasks'[t] # tasks[t]) =>
            /\ tasks'[t].pc = "snapshot"
            /\ SentOne(event_tx, event_tx', EventKindOf(tasks[t].cmd.op),
                       NoGame)
            /\ snapshot_tx' = snapshot_tx
    /\ (tasks[t].pc = "snapshot" /\ tasks'[t] # tasks[t]) =>
            /\ tasks'[t].pc = "snapshot_event"
            /\ snapshot_tx'.value = tasks[t].snapshot
            /\ event_tx' = event_tx
    /\ (tasks[t].pc = "snapshot_event" /\ tasks'[t] # tasks[t]) =>
            /\ tasks'[t].pc = "idle"
            /\ SentOne(event_tx, event_tx', "Snapshot", tasks[t].snapshot)
            /\ snapshot_tx' = snapshot_tx
    /\ (tasks[t].pc \notin {"idle", "commit"} /\ tasks'[t] # tasks[t]) =>
            tasks'[t].snapshot = tasks[t].snapshot \/ tasks'[t] = IdleTask

\* The steps of the idle timeout, in their order.
C14_MonitorStep ==
    /\ (monitor.pc = "acquire" /\ monitor'.pc = "event") =>
            /\ inner' = [inner EXCEPT !.state = Finished]
            /\ monitor'.snapshot = inner'
            /\ event_tx' = event_tx /\ snapshot_tx' = snapshot_tx
    /\ (monitor.pc = "event" /\ monitor' # monitor) =>
            /\ monitor'.pc = "snapshot"
            /\ SentOne(event_tx, event_tx', "Finished", NoGame)
            /\ snapshot_tx' = snapshot_tx
    /\ (monitor.pc = "snapshot" /\ monitor' # monitor) =>
            /\ monitor'.pc = "snapshot_event"
            /\ snapshot_tx'.value = monitor.snapshot
            /\ event_tx' = event_tx
    /\ (monitor.pc = "snapshot_event" /\ monitor' # monitor) =>
            /\ monitor'.pc = "done"
            /\ SentOne(event_tx, event_tx', "Snapshot", monitor.snapshot)
            /\ snapshot_tx' = snapshot_tx

\* Events and snapshots are sent by these steps only.
C14_OnlyThese ==
    /\ Len(event_tx'.queue) > Len(event_tx.queue) =>
            \/ \E t \in Tasks :
                /\ tasks[t].pc \in {"event", "snapshot_event"}
                /\ tasks'[t] # tasks[t]
            \/ (monitor.pc \in {"event", "snapshot_event"}
                    /\ monitor' # monitor)
    /\ snapshot_tx' # snapshot_tx =>
            \/ \E t \in Tasks :
                tasks[t].pc = "snapshot" /\ tasks'[t] # tasks[t]
            \/ (monitor.pc = "snapshot" /\ monitor' # monitor)

\* C14: each successful join, start, attack and end of turn, and the idle
\* timeout, sends exactly one semantic event of its kind, then writes its
\* snapshot to the snapshot slot, then sends exactly one Snapshot event;
\* the snapshot is the game as the operation left it; nothing else sends
\* an event or writes the slot.
C14_PublishOrder ==
    [][/\ \A t \in Tasks : C14_CallStep(t)
       /\ C14_MonitorStep
       /\ C14_OnlyThese]_vars

\* C14: a subscriber has the AttackResolved event of an attack whose
\* snapshot, which shows the attack's change, is not yet in the slot.
C14_Witness ==
    /\ tasks[FirstTask].pc = "snapshot"
    /\ tasks[FirstTask].cmd.op = "attack"
    /\ event_tx.queue # << >>
    /\ event_tx.queue[Len(event_tx.queue)].type = "AttackResolved"
    /\ snapshot_tx.value # tasks[FirstTask].snapshot
    /\ tasks[FirstTask].snapshot = inner
    /\ tasks[FirstTask].snapshot.world # snapshot_tx.value.world

\* Every game value an observer can get: the game read under the read lock
\* by snapshot(), the value of the snapshot slot, the games of the Snapshot
\* events queued, and the clones that calls and the monitor are about to
\* publish.
ObservedGames ==
    {inner, snapshot_tx.value}
    \cup {event_tx.queue[i].game :
            i \in {j \in 1..Len(event_tx.queue) :
                      event_tx.queue[j].type = "Snapshot"}}
    \cup {tasks[t].snapshot :
            t \in {u \in Tasks : tasks[u].pc \in
                      {"touch", "event", "snapshot", "snapshot_event"}}}
    \cup (IF monitor.pc \in {"event", "snapshot", "snapshot_event"}
          THEN {monitor.snapshot} ELSE {})

\* C16: every game value an observer can get, under any interleaving of
\* concurrent attacks, holds every area of the world, the attacking one
\* included.
C16_AreasPresent ==
    \A game \in ObservedGames : DOMAIN game.world.areas = AreaIds

\* Two attacks race: one has been written and its clone is being
\* published with the attacking area changed, the other holds the write
\* lock.
C16_Witness ==
    \E t \in Tasks, u \in Tasks :
        /\ t # u
        /\ tasks[t].pc = "snapshot_event"
        /\ tasks[t].cmd.op = "attack"
        /\ tasks[t].snapshot.world.areas[tasks[t].cmd.from_id]
               # snapshot_tx.value.world.areas[tasks[t].cmd.from_id]
        /\ Calling(u, "attack")

\* C17: once a successful join_player, start_game, attack or end_turn has
\* called touch_activity, the activity slot holds an instant no earlier than
\* the start of that call.
C17_ActivityTouched ==
    \A t \in Tasks :
        tasks[t].pc \in {"event", "snapshot", "snapshot_event"} =>
            activity_tx.value >= tasks[t].started

\* C15: a receiver has missed events exactly when more than EventCapacity
\* events were sent since it last took one; what its handler does next is
\* to take the Lagged signal and send a Snapshot event of the game as it
\* is when read, and no event is taken from the queue in that step.
C15_Step ==
    (event_tx.missed > 0 /\ conn' # conn) =>
        /\ conn'.got = "lagged"
        /\ conn'.seq # conn.seq
        /\ conn'.out = SnapshotEvent(inner)
        /\ inner' = inner
        /\ event_tx' = [event_tx EXCEPT !.missed = 0]

C15_LaggedSnapshot ==
    /\ [](event_tx.missed > 0 => Len(event_tx.queue) = EventCapacity)
    /\ [][C15_Step]_vars

\* The handler has answered a Lagged signal with a Snapshot that differs
\* from the oldest Snapshot event retained.
C15_Witness ==
    /\ conn.got = "lagged"
    /\ conn.out = SnapshotEvent(inner)
    /\ Len(event_tx.queue) = EventCapacity
    /\ event_tx.queue[2].type = "Snapshot"
    /\ event_tx.queue[2] # conn.out

\* C18: game_ws calls join_player once, before the socket is attached.  A
\* user already among the players leaves the players as they are and no
\* event is sent, and the socket is attached; Ok attaches it too; any
\* other error refuses the connection for good.  An attached socket is
\* first sent the Snapshot of the game, and no later step of the
\* connection adds a player.
C18_Step ==
    /\ (conn.pc = "connect" /\ conn' # conn) =>
          LET out == join_player(inner, conn.user)
          IN  /\ conn'.joined = out.res.kind
              /\ conn'.out = conn.out
              /\ IF HasPlayer(inner, conn.user)
                 THEN /\ inner' = inner
                      /\ event_tx' = event_tx
                      /\ snapshot_tx' = snapshot_tx
                      /\ conn'.pc = "upgrade"
                 ELSE IF out.res.ok
                 THEN /\ inner'.players =
                            Append(inner.players,
                                   out.game.players[Len(out.game.players)])
                      /\ conn'.pc = "upgrade"
                 ELSE /\ out.res.kind \in {"GameFull", "GameStarted"}
                      /\ inner' = inner
                      /\ event_tx' = event_tx
                      /\ conn'.pc = "refused"
    /\ (conn.pc = "upgrade" /\ conn'.pc = "subscribe") =>
          conn'.out = SnapshotEvent(inner)
    /\ conn.pc = "refused" => conn' = conn
    /\ conn.pc # "connect" =>
          /\ conn'.pc # "connect"
          /\ conn'.joined = conn.joined
          /\ inner'.players = inner.players

C18_JoinOnce == [][C18_Step]_vars

\* A user who was a player already is attached and has been sent the
\* initial Snapshot, while another subscriber has been sent nothing.
C18_Witness ==
    /\ conn.joined = "PlayerAlreadyInGame"
    /\ conn.pc = "subscribe"
    /\ conn.out = SnapshotEvent(inner)
    /\ event_tx.rx = 1
    /\ event_tx.queue = << >>

\* A step that sends an Error event leaves the connection in its loop and
\* changes neither the game nor any channel of the session.
C19_ErrorStep ==
    (conn'.seq # conn.seq /\ conn'.out.type = "Error") =>
        /\ conn.pc = "loop"
        /\ conn' = SocketSend(conn, conn'.out)
        /\ inner' = inner
        /\ event_tx' = event_tx
        /\ snapshot_tx' = snapshot_tx
        /\ activity_tx' = activity_tx

\* In its loop the handler answers a text that does not decode, and each
\* command the session rejects, with the Error event alone, and carries
\* out each command the session accepts.
C19_Answered ==
    conn.pc = "loop" =>
        /\ ENABLED (/\ NextSocket
                    /\ conn' = SocketSend(conn,
                                    ErrorEvent("invalid command payload"))
                    /\ inner' = inner)
        /\ Len(event_tx.queue) < MaxBacklog =>
              \A cmd \in ConnCommands : \A out \in Outcomes(inner, cmd) :
                  IF out.res.ok
                  THEN ENABLED (/\ NextSocket
                                /\ inner' = out.game
                                /\ conn' = conn)
                  ELSE ENABLED (/\ NextSocket
                                /\ conn' = SocketSend(conn,
                                                ErrorEvent(out.res.kind))
                                /\ inner' = inner)

\* C19: a text message that does not decode, or whose Start, Attack or
\* EndTurn the session rejects, is answered with an Error event on this
\* connection only; the loop goes on and carries out later commands, the
\* game is unchanged and nothing is sent to the subscribers.
C19_ErrorsKeepLoop == []C19_Answered /\ [][C19_ErrorStep]_vars

\* An EndTurn sent before the game started was answered with an Error
\* event, and the Start sent after it on the same connection has been
\* carried out: its GameStarted event waits in the queue.
C19_Witness ==
    /\ conn.pc = "loop"
    /\ conn.out = ErrorEvent("GameNotStarted")
    /\ inner.state.tag = "InProgress"
    /\ \E i \in 1..Len(event_tx.queue) :
           event_tx.queue[i].type = "GameStarted"

\* C20: the slot of the list of games holds exactly one item per
\* registered session, the one just created included, whether or not the
\* list had a subscriber when the session was created; with no session it
\* holds the empty list.
C20_ListSlot ==
    LET value == registry.list_tx.value
    IN  /\ Len(value) = Cardinality(DOMAIN registry.games)
        /\ {value[i].id : i \in DOMAIN value} = DOMAIN registry.games

\* Every republish task waits for a change and none is unseen.
ListTasksIdle ==
    \A id \in DOMAIN registry.games :
        registry.games[id].pc = "changed" /\ ~registry.games[id].changed

\* C21: with a subscriber of the list present throughout, once every
\* republish task is idle the slot of the list holds a list that
\* list_games gives for the sessions as they are.
C21_ListCurrent ==
    ListTasksIdle => registry.list_tx.value \in list_games(registry.games)

\* The checks of an attack in the order of C22, each with the error it
\* gives; a check on an area is made only if the areas exist.
AttackChecks(world, from_id, to_id, player_id) ==
    LET found == from_id \in DOMAIN world.areas /\ to_id \in DOMAIN world.areas
    IN  << [fails |-> from_id \notin DOMAIN world.areas,
            err |-> Err("AreaNotFound", from_id, 0)],
           [fails |-> to_id \notin DOMAIN world.areas,
            err |-> Err("AreaNotFound", to_id, 0)],
           [fails |-> found /\ ~AreaIsAdjacent(world.areas[from_id],
                                               world.areas[to_id]),
            err |-> Err("AreasNotAdjacent", from_id, to_id)],
           [fails |-> found /\ world.areas[from_id].owner # player_id,
            err |-> Err("AreaNotOwnedByPlayer", from_id, player_id)],
           [fails |-> found /\ world.areas[to_id].owner = player_id,
            err |-> Err("SelfAttackNotAllowed", 0, 0)],
           [fails |-> found /\ world.areas[from_id].stack = 1,
            err |-> Err("AreaNotEnoughDice", from_id, 0)] >>

StackBefore == last.before.world.areas[last.cmd.from_id].stack

StackAfter == inner.world.areas[last.cmd.from_id].stack

\* An increment that succeeded, followed by a decrement of the same stack.
C23_Step ==
    (/\ last.cmd.op = "increment" /\ last.res.ok
     /\ last'.cmd.op = "decrement"
     /\ last'.cmd.from_id = last.cmd.from_id)
    => /\ last'.res.ok
       /\ inner'.world.areas[last.cmd.from_id].stack = StackBefore

BonusTargets(world, player_id) ==
    {id \in DOMAIN world.areas :
        /\ world.areas[id].owner = player_id
        /\ world.areas[id].stack < StackMAX}

C28_Symmetric ==
    /\ last.cmd.op = "tile_is_adjacent" =>
         /\ (last.res.kind = "true")
                <=> TileIsAdjacent(last.cmd.other, last.cmd.self)
         /\ last.cmd.self = last.cmd.other => last.res.kind = "false"
    /\ last.cmd.op = "area_is_adjacent" =>
         ((last.res.kind = "true")
            <=> AreaIsAdjacent([tiles |-> last.cmd.other],
                               [tiles |-> last.cmd.self]))

\* The tiles of the grid that a tile is adjacent to.
Neighbours(self) == {other \in TileGrid : TileIsAdjacent(self, other)}

\* The tiles above, below, left and right of a tile.
Orthogonal(self) ==
    {<<self[1], self[2] - 1>>, <<self[1], self[2] + 1>>,
     <<self[1] - 1, self[2]>>, <<self[1] + 1, self[2]>>}

\* C29: a tile with x >= 1 and y >= 1 is adjacent to exactly six other
\* tiles: the two above and below it, the two beside it at the same y, and
\* the two in the neighbouring columns at one y offset, +1 or -1, fixed by
\* the parity of x.  Checked on the tiles whose surroundings lie in the grid.
C29_SixNeighbours ==
    (/\ last.cmd.op = "tile_is_adjacent"
     /\ last.cmd.self[1] \in 1..(MaxCoord - 1)
     /\ last.cmd.self[2] \in 1..(MaxCoord - 1))
    => LET self == last.cmd.self
       IN  /\ self \notin Neighbours(self)
           /\ Cardinality(Neighbours(self)) = 6
           /\ \E offset \in {-1, 1} :
                 Neighbours(self) =
                     Orthogonal(self) \cup
                     {<<self[1] - 1, self[2] + offset>>,
                      <<self[1] + 1, self[2] + offset>>}

\* Two areas are neighbours when either is adjacent to the other.
Linked(world, a, b) ==
    \/ AreaIsAdjacent(world.areas[a], world.areas[b])
    \/ AreaIsAdjacent(world.areas[b], world.areas[a])

\* The sets of areas of the player that hold together through neighbours.
Groups(world, player_id) ==
    { group \in SUBSET {id \in DOMAIN world.areas :
                           world.areas[id].owner = player_id} :
        /\ group # {}
        /\ \A part \in SUBSET group :
              (part # {} /\ part # group) =>
                  \E a \in part, b \in group \ part : Linked(world, a, b) }

\* C27: largest_connected_group(player) is the number of areas of the
\* largest set of the player's areas connected through adjacency, 0 when the
\* player has no area, and is the same for every iteration order of the map.
C27_LargestGroup ==
    last.cmd.op = "largest_connected_group" =>
        /\ \A group \in Groups(inner.world, last.cmd.player_id) :
              Cardinality(group) <= last.res.a
        /\ \/ last.res.a = 0
           \/ \E group \in Groups(inner.world, last.cmd.player_id) :
                 Cardinality(group) = last.res.a
        /\ \A order \in ListOrders(DOMAIN inner.world.areas) :
              largest_connected_group(inner.world, order,
                                      last.cmd.player_id) = last.res.a

\* C30: the pool of stored dice is capped at MAX_STORED_DICE: from every
\* pool p in 0..20 and for every amount a >= 0, store_dice(a) completes
\* normally and leaves the pool at the smaller of p + a and 20; the pool
\* never exceeds 20, and store_dice(0) leaves it as it was.
C30_PoolCapped ==
    /\ inner.players[1].stored_dice \in 0..MAX_STORED_DICE
    /\ last.cmd.op = "store_dice" =>
         LET pool == last.before.players[1].stored_dice
             sum == pool + last.cmd.amount
         IN  /\ last.res.ok
             /\ inner.players[1].stored_dice =
                    IF sum < MAX_STORED_DICE THEN sum ELSE MAX_STORED_DICE
             /\ last.cmd.amount = 0 => inner.players[1].stored_dice = pool

\* C31: an attack that returns Ok changes nothing but the owner and the
\* stack of its two areas: the state with its turn index, the players, the
\* id and the tiles of the two areas and every other area are as before.
C31_AttackFrame ==
    Attacked =>
        /\ inner.state = last.before.state
        /\ inner.players = last.before.players
        /\ DOMAIN inner.world.areas = DOMAIN last.before.world.areas
        /\ \A id \in DOMAIN last.before.world.areas :
              IF id \in {last.cmd.from_id, last.cmd.to_id}
              THEN /\ inner.world.areas[id].id =
                        last.before.world.areas[id].id
                   /\ inner.world.areas[id].tiles =
                        last.before.world.areas[id].tiles
              ELSE inner.world.areas[id] = last.before.world.areas[id]

\* An attack was won on the other player's area while the turn index is 1.
C31_Witness ==
    /\ Attacked
    /\ last.attack_r > last.defense_r
    /\ last.before.state.turn = 1
    /\ last.before.world.areas[last.cmd.to_id].owner = 2
    /\ inner.world.areas[last.cmd.to_id].owner = 1
    /\ inner.world.areas[3] = last.before.world.areas[3]

\* C32: a connected client misses no state: every event published after
\* the game of its initial Snapshot is forwarded to it or made up for by the
\* Snapshot sent on Lagged.  So once the connection has taken every event
\* retained for it, the last Snapshot it was sent is the game as it is.
C32_NothingMissed ==
    (/\ conn.pc = "loop"
     /\ event_tx.queue = << >>
     /\ event_tx.missed = 0
     /\ conn.out.type = "Snapshot")
    => conn.out.game = inner

\* The Snapshot events of the log, in the order of the log.
SnapshotsLogged == SelectSeq(event_tx.queue, LAMBDA e : e.type = "Snapshot")

\* C33: under any interleaving of concurrent mutating calls the events are
\* in the log in the order in which their mutations were applied under the
\* lock; in particular a later Snapshot event never carries an older game
\* than an earlier one: neither fewer players nor an earlier state.
C33_LogOrder ==
    \A i \in DOMAIN SnapshotsLogged : \A j \in DOMAIN SnapshotsLogged :
        i < j =>
            /\ Len(SnapshotsLogged[i].game.players)
                 <= Len(SnapshotsLogged[j].game.players)
            /\ StateRank(SnapshotsLogged[i].game.state)
                 <= StateRank(SnapshotsLogged[j].game.state)

\* The monitor, holding the write lock, turns the game to Finished.
ForcedFinish ==
    /\ monitor.pc = "acquire"
    /\ inner.state # Finished
    /\ inner'.state = Finished

\* C34: the idle monitor never turns to Finished a game on which a join,
\* start, attack, end_turn or Ping returned successfully less than
\* GAME_IDLE_TIMEOUT before, under any interleaving of its tick with them.
C34_OnlyIdleFinished ==
    [][ForcedFinish =>
          ~(/\ last.cmd.op # "none"
            /\ last.res.ok
            /\ now - last.at < GAME_IDLE_TIMEOUT)]_vars

\* C35: an attack by a player who is not the turn-holder of the InProgress
\* game is rejected and leaves the world unchanged.  The error claimed is
\* NotPlayerTurn; the formula asks only for the rejection.
C35_AttackInTurn ==
    (/\ last.cmd.op = "attack"
     /\ last.before.state.tag = "InProgress"
     /\ CurrentPlayerId(last.before) # last.cmd.player_id)
    => /\ ~last.res.ok
       /\ inner.world = last.before.world

\* The turn index of a game that is InProgress is below its player count.
TurnInRange(game) ==
    game.state.tag = "InProgress" =>
        game.state.turn \in 0..(Len(game.players) - 1)

\* C36: in every reachable state of a session, after any joins, starts,
\* attacks, ends of turn and timeouts, a game that is InProgress has a turn
\* index below the number of its players, and so has the game that
\* next_turn makes of it for any player.
C36_TurnInRange ==
    /\ TurnInRange(inner)
    /\ \A player_id \in PlayerIds :
          TurnInRange(next_turn(inner, player_id).game)

\* The last player of a full game holds the turn and is ending it.
C36_Witness ==
    /\ inner.state.tag = "InProgress"
    /\ Len(inner.players) = MAX_PLAYERS
    /\ inner.state.turn = MAX_PLAYERS - 1
    /\ Calling(FirstTask, "end_turn")
    /\ tasks[FirstTask].pending.res.ok

\* Any step leaves the players as they are or, on a game that is
\* WaitingForPlayers, appends one player at the end.
C37_Step ==
    \/ inner'.players = inner.players
    \/ /\ inner.state = WaitingForPlayers
       /\ Len(inner'.players) = Len(inner.players) + 1
       /\ SubSeq(inner'.players, 1, Len(inner.players)) = inner.players

\* C37: in every reachable state the players are at most MAX_PLAYERS, with
\* pairwise distinct ids; the list only grows, by appending at its end, and
\* is never modified once the game has left WaitingForPlayers, whatever
\* command is rejected.
C37_PlayersStable ==
    /\ [](/\ Len(inner.players) <= MAX_PLAYERS
          /\ \A i \in DOMAIN inner.players, j \in DOMAIN inner.players :
                inner.players[i].id = inner.players[j].id => i = j)
    /\ [][C37_Step]_vars

\* A user who is not in the started game, which has room left, is joining
\* and is refused.
C37_Witness ==
    /\ Calling(FirstTask, "join")
    /\ tasks[FirstTask].view.state.tag = "InProgress"
    /\ Len(tasks[FirstTask].view.players) < MAX_PLAYERS
    /\ ~HasPlayer(tasks[FirstTask].view, tasks[FirstTask].cmd.player_id)
    /\ tasks[FirstTask].pending.res.kind = "GameStarted"

\* C38: after any attack call, successful or failing, the world has the
\* area ids it had before; an attack of an area on itself is rejected by
\* the validation and changes nothing, and no attack fails once the
\* attacking area was taken off the map.
C38_AreasKept ==
    last.cmd.op = "attack" =>
        /\ DOMAIN inner.world.areas = DOMAIN last.before.world.areas
        /\ last.cmd.from_id = last.cmd.to_id =>
              /\ ~last.res.ok
              /\ last.res = validate_attack(last.before.world,
                                            last.cmd.from_id, last.cmd.to_id,
                                            last.cmd.player_id)
              /\ inner = last.before
        /\ ~last.res.ok => inner = last.before

\* The owner of the two-tile area, which is adjacent to itself and holds
\* more than one unit, attacks it from itself and is refused.
C38_Witness ==
    /\ last.cmd.op = "attack"
    /\ last.cmd.from_id = 1
    /\ last.cmd.to_id = 1
    /\ last.cmd.player_id = 1
    /\ last.before.world.areas[1].stack > StackMIN
    /\ AreaIsAdjacent(last.before.world.areas[1], last.before.world.areas[1])
    /\ ~last.res.ok
    /\ inner = last.before

\* C39: in every accepted attack both rolls are sums of as many dice as the
\* stack holds, so each lies between the count and DIE_SIDES times the count;
\* the target changes owner exactly when the attack roll is strictly greater,
\* so a tie never wins, and a stack of at least seven always takes an area
\* of one.
C39_FullRolls ==
    Attacked =>
        LET from_area == last.before.world.areas[last.cmd.from_id]
            to_area == last.before.world.areas[last.cmd.to_id]
            won == inner.world.areas[last.cmd.to_id].owner
                       = last.cmd.player_id
        IN  /\ last.attack_r \in from_area.stack..(DIE_SIDES * from_area.stack)
            /\ last.defense_r \in to_area.stack..(DIE_SIDES * to_area.stack)
            /\ won <=> last.attack_r > last.defense_r
            /\ last.attack_r = last.defense_r => ~won
            /\ (from_area.stack >= 7 /\ to_area.stack = 1) => won

C39_Witness ==
    /\ Attacked
    /\ last.before.world.areas[last.cmd.from_id].stack = 7
    /\ last.before.world.areas[last.cmd.to_id].stack = 1
    /\ last.attack_r = 7
    /\ last.defense_r = DIE_SIDES
    /\ inner.world.areas[last.cmd.to_id].owner = last.cmd.player_id
    /\ last.before.world.areas[last.cmd.to_id].owner # last.cmd.player_id

====
